---------------------------- MODULE Spec2Model ----------------------------
(*************************************************************************)
(* A model of the hydra arbitrage engine (p3dr-dev/hydra).                *)
(*                                                                         *)
(* The module holds one state machine per subsystem, all over the same    *)
(* variables; a specification runs one subsystem and leaves the variables *)
(* of the others at their initial value:                                  *)
(*   SpecApi    the REST wrapper of api_client.py (failover, rate limit)  *)
(*   SpecFill   the fill accounting of execute_single_path on its own     *)
(*   SpecExec   order_executor.py: hops, orders, the worker pool          *)
(*   SpecPool   the same executor with more instructions than workers     *)
(*   SpecCycle  main.py run_cycle with the risk layer of risk_manager.py  *)
(*************************************************************************)
EXTENDS Integers, Sequences, FiniteSets, TLC

(*************************************************************************)
(* Helpers                                                                 *)
(*************************************************************************)
Min2(a, b) == IF a <= b THEN a ELSE b

Last(s) == s[Len(s)]

Front(s) == SubSeq(s, 1, Len(s) - 1)

RECURSIVE SumSeq(_)
SumSeq(s) == IF s = <<>> THEN 0 ELSE s[1] + SumSeq(Tail(s))

(*************************************************************************)
(* State                                                                   *)
(*************************************************************************)
\* Exchange client (api_client.py)
VARIABLES
    endpoints,               \* number of reachable endpoints, ranked by latency
    endpoint_cycle,          \* rank the itertools.cycle iterator yields next
    spot_client,             \* rank of the endpoint the spot client talks to
    time_offset_ms,          \* server time - local time of the last sync
    rate_limit_weight,       \* used weight of the current window
    window_age,              \* time.time() - last_weight_reset_time, in s
    call_stack,              \* frames of _handle_request_errors.wrapper
    errors_left,             \* error responses the exchange may still give
    api_event,               \* what the last step of the client did
    last_sleep               \* seconds of the last time.sleep of the wrapper

apiVars == <<endpoints, endpoint_cycle, spot_client, time_offset_ms,
             rate_limit_weight, window_age, call_stack, errors_left,
             api_event, last_sleep>>

\* Fill accounting of one hop (order_executor.py)
VARIABLES
    fill_side,               \* side of the hop whose fills are accounted
    fill_asset_to,           \* asset the hop buys or receives
    fill_list,               \* order_details['fills']
    fill_amount              \* current_amount after the accounting, -1 before

fillVars == <<fill_side, fill_asset_to, fill_list, fill_amount>>

\* Order executor (order_executor.py) with its circuit breaker (resilience.py)
VARIABLES
    instructions,            \* the list given to execute_instructions
    futures,                 \* per submitted instruction: its worker's state
    results,                 \* results of execute_instructions_parallel
    exec_pc,                 \* where execute_instructions stands
    execution_history,       \* OrderExecutor.execution_history
    persisted,               \* results written by _persist_execution_result
    cb_state,                \* CircuitBreaker.state of "live_trade"
    cb_failure_count,        \* CircuitBreaker.failure_count
    cb_success_count,        \* CircuitBreaker.success_count
    cb_elapsed,              \* time.time() - last_failure_time, in s
    tested,                  \* orders test_place_order has accepted
    placed,                  \* orders place_order has put on the book
    next_order_id,           \* the orderId the exchange hands out next
    risk_filters,            \* the risk manager holds the exchange filters
    supplied                 \* methods src/ calls without defining them that
                             \* the collaborators provide

execVars == <<instructions, futures, results, exec_pc, execution_history,
              persisted, cb_state, cb_failure_count, cb_success_count,
              cb_elapsed, tested, placed, next_order_id, risk_filters,
              supplied>>

\* Orchestrator (main.py) and risk layer (risk_manager.py)
VARIABLES
    cycle_pc,                \* where run_cycle stands
    cycles,                  \* analysis cycles started so far
    system_status,           \* status of get_system_status
    free_balance,            \* free balance of the start asset, in 0.01
    start_in_graph,          \* the start asset is an asset of the graph
    engine_paths,            \* what find_profitable_paths returns this cycle
    volatility_multiplier,   \* of get_dynamic_risk_parameters this cycle
    all_profitable_paths,    \* run_cycle's list of profitable paths
    active_depth_subscriptions,
    trade_instructions,      \* what generate_trade_instructions returned
    trading_stats,           \* total, successful and failed trades
    daily_pnl,               \* RiskManager.daily_pnl, in 0.01
    open_positions           \* RiskManager.open_positions

\* The account and the market as one cycle finds them.
marketVars == <<system_status, free_balance, start_in_graph, engine_paths,
                volatility_multiplier>>

cycleVars == <<cycle_pc, cycles, marketVars, all_profitable_paths,
               active_depth_subscriptions, trade_instructions, trading_stats,
               daily_pnl, open_positions>>

\* Streams of the exchange client (api_client.py) and shutdown (main.py)
VARIABLES
    running,                 \* TradingBot.running
    stop_pc,                 \* where TradingBot.stop stands
    stop_event,              \* TradingBot._stop_event is set
    market_websocket_client, \* the stream it refers to, 0 for None
    market_websocket_running,
    market_ws_callback,      \* ApiClient._market_ws_callback
    user_websocket_client,
    user_websocket_running,
    user_ws_callback,
    depth_websocket_clients, \* symbol -> the stream of its client
    depth_websocket_running, \* symbol -> flag
    streams,                 \* every SpotWebsocketStreamClient created
    on_close_pending,        \* streams whose on_close call is due
    ws_sleeping,             \* close handlers inside time.sleep(5)
    depth_stop_pc,           \* symbol stop_depth_websocket is working on
    closes_left,             \* closes the remote side may still make
    ws_event                 \* what the last call of start_ or
                             \* stop_depth_websocket did, << >> after
                             \* any other step

wsVars == <<running, stop_pc, stop_event, market_websocket_client,
            market_websocket_running, market_ws_callback,
            user_websocket_client, user_websocket_running, user_ws_callback,
            depth_websocket_clients, depth_websocket_running, streams,
            on_close_pending, ws_sleeping, depth_stop_pc, closes_left,
            ws_event>>

\* Trading graph (data_analyzer.py, built by TradingBot.start of main.py)
VARIABLES
    trading_graph,           \* asset -> list of neighbours
    all_assets,
    symbol_to_assets_map,    \* symbol -> base and quote
    exchange_info,           \* the last response build_trading_graph got
    build_pc,                \* where build_trading_graph stands
    build_i,                 \* index of the symbol_info the build is at
    build_attempt,           \* fetches of the current build
    last_build,              \* how the last build ended
    builds,                  \* builds started so far
    start_pc,                \* where TradingBot.start stands
    complete_graph,          \* the graph as the last finished build left it
    observed                 \* what find_profitable_paths read last

graphVars == <<trading_graph, all_assets, symbol_to_assets_map,
               exchange_info, build_pc, build_i, build_attempt, last_build,
               builds, start_pc, complete_graph, observed>>

\* Path search (data_analyzer.py)
VARIABLES
    path_rates,              \* what one unit of an asset trades into
    strategy_params,         \* max_path_length and min_profit_threshold
    start_amount,            \* free balance of the start asset
    path_pc,                 \* where find_profitable_paths stands
    discovered,              \* profitable_paths before the sort
    returned_paths           \* what find_profitable_paths returned

pathVars == <<path_rates, strategy_params, start_amount, path_pc, discovered,
              returned_paths>>

\* Path analysis of the risk layer (risk_manager.py)
VARIABLES
    analysis_path,           \* the path _analyze_path_risk is given
    analysis_tickers,        \* symbol -> quote, as the analysis finds them
    analysis_pc,             \* where _analyze_path_risk stands
    path_analysis            \* the PathAnalysis it returned

analysisVars == <<analysis_path, analysis_tickers, analysis_pc,
                  path_analysis>>

\* LOT_SIZE adjustment (risk_manager.py), quantities in units of 0.00000001
VARIABLES
    lot_filter,              \* the LOT_SIZE filter of the symbol, if any
    lot_quantity,            \* the quantity asked for
    lot_adjusted             \* what adjust_quantity_to_filters returned, call
                             \* after call, each call given the last outcome

lotVars == <<lot_filter, lot_quantity, lot_adjusted>>

\* Allocation of the capital of one start asset (risk_manager.py)
VARIABLES
    alloc_balance,           \* free balance of the start asset, in 0.01
    alloc_multiplier,        \* volatility multiplier of the risk parameters
    alloc_paths,             \* the profitable paths of the start asset
    alloc_tickers,           \* symbol -> quote
    alloc_pc,                \* where generate_trade_instructions stands
    path_analyses,           \* the PathAnalysis of every path
    path_allocations         \* the instructions returned

allocVars == <<alloc_balance, alloc_multiplier, alloc_paths, alloc_tickers,
               alloc_pc, path_analyses, path_allocations>>

\* Order requests and their timestamps (order_executor.py, api_client.py)
VARIABLES
    local_ms,                \* int(time.time() * 1000) of the local clock
    order_params,            \* the order_params of _execute_live_trade
    live_pc,                 \* where _execute_live_trade stands
    requests                 \* order requests sent to the exchange, each
                             \* with the local time and the clock offset of
                             \* the moment it was sent

stampVars == <<local_ms, order_params, live_pc, requests>>

\* Ticker handler of the orchestrator (main.py)
VARIABLES
    ticker_threads,          \* per stream: where its thread stands inside
                             \* _on_ticker_message
    tickers_known,           \* self.tickers is not empty
    analysis_counter,        \* self._analysis_counter, -1 while it is unset
    received,                \* messages the handler was called with
    recognized,              \* messages that reached the counter
    cycles_started,          \* calls of run_cycle
    cycle_errors             \* calls of run_cycle that raised

tickerVars == <<ticker_threads, tickers_known, analysis_counter, received,
                recognized, cycles_started, cycle_errors>>

\* The loop of find_profitable_paths, one iteration at a time
VARIABLES
    path_cap,                \* DataAnalyzer.max_paths
    search_pc,               \* where find_profitable_paths stands
    search_queue,            \* queue
    search_visited,          \* visited
    search_found,            \* profitable_paths
    search_expanded,         \* the (asset, depth) states expanded, in order
    search_returned          \* what the call returned

searchVars == <<path_cap, search_pc, search_queue, search_visited,
                search_found, search_expanded, search_returned>>

\* Symbol resolution (data_analyzer.py get_symbol_and_side)
VARIABLES
    resolve_tickers,         \* the keys of the tickers dict
    resolve_pair,            \* the assets X and Y
    resolved                 \* the results of resolve(X, Y) and resolve(Y, X)

resolveVars == <<resolve_tickers, resolve_pair, resolved>>

\* Calls of one circuit breaker, one after the other (resilience.py)
VARIABLES
    cb_streak,               \* failed calls since the last successful one
    cb_trial,                \* successful calls since HALF_OPEN was entered
    cb_last,                 \* the last call: the state it found, the time
                             \* since the last failure, and how it ended
    cb_calls                 \* calls made so far

breakerVars == <<cb_streak, cb_trial, cb_last, cb_calls>>

\* Positions of the risk manager (risk_manager.py)
VARIABLES
    position_history,        \* RiskManager.position_history
    position_calls           \* calls of add_position and close_position

positionVars == <<position_history, position_calls>>

\* Concurrent callers of the decorated REST methods (api_client.py)
VARIABLES
    gate_threads,            \* each caller: where it stands in the wrapper
    window_dispatched,       \* declared weight dispatched since the wrapper
                             \* last started a window
    gate_calls               \* calls that entered the wrapper so far

gateVars == <<gate_threads, window_dispatched, gate_calls>>

lastVars == <<searchVars, resolveVars, breakerVars, positionVars, gateVars>>

\* All but the circuit breaker.
nonBreakerVars == <<apiVars, fillVars, instructions, futures, results,
                    exec_pc, execution_history, persisted, tested, placed,
                    next_order_id, risk_filters, supplied, cycleVars, wsVars,
                    graphVars, pathVars, analysisVars, lotVars, allocVars,
                    stampVars, tickerVars, searchVars, resolveVars,
                    positionVars, gateVars>>

\* All but the positions and the profit of the day.
nonPositionVars == <<apiVars, fillVars, execVars, cycle_pc, cycles,
                     marketVars, all_profitable_paths,
                     active_depth_subscriptions, trade_instructions,
                     trading_stats, wsVars, graphVars, pathVars,
                     analysisVars, lotVars, allocVars, stampVars, tickerVars,
                     searchVars, resolveVars, breakerVars, gateVars>>

laterVars == <<analysisVars, lotVars, allocVars, stampVars, tickerVars,
               lastVars>>

nonSearchVars == <<apiVars, fillVars, execVars, cycleVars, wsVars, graphVars,
                   pathVars, analysisVars, lotVars, allocVars, stampVars,
                   tickerVars, resolveVars, breakerVars, positionVars,
                   gateVars>>

nonResolveVars == <<apiVars, fillVars, execVars, cycleVars, wsVars,
                    graphVars, pathVars, analysisVars, lotVars, allocVars,
                    stampVars, tickerVars, searchVars, breakerVars,
                    positionVars, gateVars>>

nonTickerVars == <<apiVars, fillVars, execVars, cycleVars, wsVars, graphVars,
                   pathVars, analysisVars, lotVars, allocVars, stampVars,
                   lastVars>>

\* All but the order requests and the clock offset of the client.
nonStampVars == <<endpoints, endpoint_cycle, spot_client, rate_limit_weight,
                  window_age, call_stack, errors_left, api_event, last_sleep,
                  fillVars, execVars, cycleVars, wsVars, graphVars, pathVars,
                  analysisVars, lotVars, allocVars, tickerVars, lastVars>>

\* All but the allocation and the methods supplied.
nonAllocVars == <<apiVars, fillVars, instructions, futures, results, exec_pc,
                  execution_history, persisted, cb_state, cb_failure_count,
                  cb_success_count, cb_elapsed, tested, placed,
                  next_order_id, risk_filters, cycleVars, wsVars, graphVars,
                  pathVars, analysisVars, lotVars, stampVars, tickerVars,
                  lastVars>>

nonLotVars == <<apiVars, fillVars, execVars, cycleVars, wsVars, graphVars,
                pathVars, analysisVars, allocVars, stampVars, tickerVars,
                lastVars>>

otherVars == <<wsVars, graphVars, pathVars, laterVars>>

nonPathVars == <<apiVars, fillVars, execVars, cycleVars, wsVars, graphVars,
                 laterVars>>

nonGraphVars == <<apiVars, fillVars, execVars, cycleVars, wsVars, pathVars,
                  laterVars>>

nonAnalysisVars == <<apiVars, fillVars, execVars, cycleVars, wsVars,
                     graphVars, pathVars, lotVars, allocVars, stampVars,
                     tickerVars, lastVars>>

vars == <<apiVars, fillVars, execVars, cycleVars, otherVars>>

nonApiVars == <<fillVars, execVars, cycleVars, otherVars>>

nonFillVars == <<apiVars, execVars, cycleVars, otherVars>>

nonExecVars == <<apiVars, fillVars, cycleVars, otherVars>>

nonCycleVars == <<apiVars, fillVars, otherVars>>

nonWsVars == <<apiVars, fillVars, execVars, cycleVars, graphVars, pathVars,
               laterVars>>

(*************************************************************************)
(* Exchange client: api_client.py                                         *)
(*************************************************************************)
\* Config.base_urls: the main URL and three alternatives.
NumUrls == 4

REQUEST_WEIGHT_LIMIT_PER_MINUTE == 6000

WindowSeconds == 60

DefaultRetryAfter == 60

\* Error responses the exchange gives in one run of the client.
MaxErrors == 2

NoHeader == -1

\* Values of the Retry-After header of a 429/418 response.
RetryAfterHeaders == {NoHeader, 1}

\* Values of the x-mbx-used-weight-1m header of a response.
UsedWeightHeaders == {NoHeader, 5990}

\* HTTP status codes of a ClientError.
StatusCodes == {429, 418, 400, 500}

\* The decorated REST methods with their declared weight.
RestOps == {"get_exchange_info", "place_order", "get_order"}

DeclaredWeight(fn) ==
    CASE fn = "get_exchange_info" -> 20
      [] fn = "get_order" -> 2
      [] OTHER -> 1

\* serverTime - local time as seen on endpoint e (never 0, which is what the
\* client stores when the response carries no serverTime).
ServerTimeOffset(e) == 10 * e

\* time.time() - last_weight_reset_time after d more seconds; every age
\* above the window is the same to the wrapper.
Elapse(age, d) == Min2(age + d, WindowSeconds + 1)

\* One activation of the wrapper: the method, where it stands, and the
\* status code and Retry-After header of the ClientError it caught last.
Frame(fn) == [fn |-> fn, pc |-> "enter", status |-> 0, retry_hdr |-> NoHeader]

Top == Last(call_stack)

SetTop(f) == [call_stack EXCEPT ![Len(call_stack)] = f]

\* next(self.endpoint_cycle): the value yielded and the iterator afterwards.
CycleAdvance(c) == IF c = endpoints THEN 1 ELSE c + 1

\* The cyclic successor of endpoint e in the latency order.
Succ(e) == IF e = endpoints THEN 1 ELSE e + 1

IsRateLimitStatus(code) == code \in {429, 418}

\* A wrapper that retries at once when the header is absent.
RetryAfterSeconds_NoDefault(hdr) == IF hdr = NoHeader THEN 0 ELSE hdr

RetryAfterSeconds(hdr) == IF hdr = NoHeader THEN DefaultRetryAfter ELSE hdr

\* ApiClient.__init__: the endpoints are ranked, the first one is selected,
\* the cycle iterator is fresh, and the constructor's own _sync_server_time
\* call is about to run.
ApiInit ==
    /\ endpoints \in 1..NumUrls
    /\ endpoint_cycle = 1
    /\ spot_client = 1
    /\ time_offset_ms = 0
    /\ rate_limit_weight = 0
    /\ window_age = 0
    /\ call_stack = <<Frame("_sync_server_time")>>
    /\ errors_left = MaxErrors
    /\ api_event = "init"
    /\ last_sleep = 0

\* A caller invokes a decorated REST method.
ApiRequest(fn) ==
    /\ call_stack = <<>>
    /\ call_stack' = <<Frame(fn)>>
    /\ api_event' = "request"
    /\ UNCHANGED <<nonApiVars, endpoints, endpoint_cycle, spot_client, time_offset_ms,
                   rate_limit_weight, window_age, errors_left, last_sleep>>

\* The weight gate at the head of the wrapper (under rate_limit_lock).
GateRolled == window_age > WindowSeconds

GateWeight == IF GateRolled THEN 0 ELSE rate_limit_weight

GateAge == IF GateRolled THEN 0 ELSE window_age

GateBlocks(fn) == GateWeight + DeclaredWeight(fn) > REQUEST_WEIGHT_LIMIT_PER_MINUTE

\* A gate that sleeps a whole window whatever the age of the current one.
GateWait_WholeWindow == WindowSeconds

\* wait_time = 60 - (time.time() - self.last_weight_reset_time)
GateWait == WindowSeconds - GateAge

WrapperGate ==
    /\ call_stack # <<>>
    /\ Top.pc = "enter"
    /\ IF GateBlocks(Top.fn)
         THEN /\ rate_limit_weight' = 0
              /\ window_age' = 0
              /\ last_sleep' = IF GateWait > 0 THEN GateWait ELSE last_sleep
              /\ api_event' = "gate_wait"
         ELSE /\ rate_limit_weight' = GateWeight
              /\ window_age' = GateAge
              /\ last_sleep' = last_sleep
              /\ api_event' = "gate_pass"
    /\ call_stack' = SetTop([Top EXCEPT !.pc = "call"])
    /\ UNCHANGED <<nonApiVars, endpoints, endpoint_cycle, spot_client, time_offset_ms,
                   errors_left>>

\* The wrapper returns to its caller; a _sync_server_time called by
\* _perform_failover returns into the wrapper that failed, which retries.
Return ==
    IF Len(call_stack) > 1
      THEN [Front(call_stack) EXCEPT ![Len(call_stack) - 1].pc = "enter"]
      ELSE <<>>

\* The decorated function returns; a (data, weight_info) response replaces
\* the local counter by the x-mbx-used-weight-1m header (0 when absent).
\* A response that is no (data, weight_info) pair.
PlainResponse == -2

ResponseKinds == {PlainResponse} \cup UsedWeightHeaders

UsedWeightAfter(resp) ==
    CASE resp = PlainResponse -> rate_limit_weight
      [] resp = NoHeader -> 0
      [] OTHER -> resp

FuncReturns(resp) ==
    /\ call_stack # <<>>
    /\ Top.pc = "call"
    /\ Top.fn # "_sync_server_time"
    /\ rate_limit_weight' = UsedWeightAfter(resp)
    /\ call_stack' = Return
    /\ api_event' = "returned"
    /\ UNCHANGED <<nonApiVars, endpoints, endpoint_cycle, spot_client, time_offset_ms,
                   window_age, errors_left, last_sleep>>

\* _sync_server_time: the offset of the endpoint the spot client talks to,
\* or 0 when the response has no serverTime (KeyError, TypeError).
SyncReturns(wellformed) ==
    /\ call_stack # <<>>
    /\ Top.pc = "call"
    /\ Top.fn = "_sync_server_time"
    /\ time_offset_ms' = IF wellformed THEN ServerTimeOffset(spot_client) ELSE 0
    /\ call_stack' = Return
    /\ api_event' = "synced"
    /\ UNCHANGED <<nonApiVars, endpoints, endpoint_cycle, spot_client, rate_limit_weight,
                   window_age, errors_left, last_sleep>>

\* except ClientError: 429/418 sleep and retry, anything else fails over.
ClientErrorBranch(code) == IF IsRateLimitStatus(code) THEN "rate_limited" ELSE "failover"

FuncRaisesClientError(code, hdr) ==
    /\ call_stack # <<>>
    /\ Top.pc = "call"
    /\ errors_left > 0
    /\ errors_left' = errors_left - 1
    /\ call_stack' = SetTop([Top EXCEPT !.pc = ClientErrorBranch(code),
                                        !.status = code,
                                        !.retry_hdr = hdr])
    /\ api_event' = "client_error"
    /\ UNCHANGED <<nonApiVars, endpoints, endpoint_cycle, spot_client, time_offset_ms,
                   rate_limit_weight, window_age, last_sleep>>

\* except requests.RequestException: fail over.
FuncRaisesRequestException ==
    /\ call_stack # <<>>
    /\ Top.pc = "call"
    /\ errors_left > 0
    /\ errors_left' = errors_left - 1
    /\ call_stack' = SetTop([Top EXCEPT !.pc = "failover", !.status = 0,
                                        !.retry_hdr = NoHeader])
    /\ api_event' = "connection_error"
    /\ UNCHANGED <<nonApiVars, endpoints, endpoint_cycle, spot_client, time_offset_ms,
                   rate_limit_weight, window_age, last_sleep>>

\* time.sleep(retry_after); return wrapper(self, ...).
RateLimitSleep ==
    /\ call_stack # <<>>
    /\ Top.pc = "rate_limited"
    /\ last_sleep' = RetryAfterSeconds(Top.retry_hdr)
    /\ window_age' = Elapse(window_age, RetryAfterSeconds(Top.retry_hdr))
    /\ call_stack' = SetTop([Top EXCEPT !.pc = "enter"])
    /\ api_event' = "rate_limit_retry"
    /\ UNCHANGED <<nonApiVars, endpoints, endpoint_cycle, spot_client, time_offset_ms,
                   rate_limit_weight, errors_left>>

\* _perform_failover: take the next endpoint of the cycle, build the spot
\* client for it and call _sync_server_time (itself a decorated method).
PerformFailover ==
    /\ call_stack # <<>>
    /\ Top.pc = "failover"
    /\ spot_client' = endpoint_cycle
    /\ endpoint_cycle' = CycleAdvance(endpoint_cycle)
    /\ call_stack' = Append(SetTop([Top EXCEPT !.pc = "await_sync"]),
                            Frame("_sync_server_time"))
    /\ api_event' = "failover"
    /\ UNCHANGED <<nonApiVars, endpoints, time_offset_ms, rate_limit_weight, window_age,
                   errors_left,
                   last_sleep>>

\* Time passes while a call is on the wire.
TickSeconds == 30

TimePasses ==
    /\ call_stack # <<>>
    /\ Top.pc = "call"
    /\ window_age <= WindowSeconds
    /\ window_age' = Elapse(window_age, TickSeconds)
    /\ api_event' = "tick"
    /\ UNCHANGED <<nonApiVars, endpoints, endpoint_cycle, spot_client, time_offset_ms,
                   rate_limit_weight, call_stack, errors_left, last_sleep>>

ApiNext ==
    \/ \E fn \in RestOps : ApiRequest(fn)
    \/ WrapperGate
    \/ \E resp \in ResponseKinds : FuncReturns(resp)
    \/ \E wf \in BOOLEAN : SyncReturns(wf)
    \/ \E code \in StatusCodes, hdr \in RetryAfterHeaders :
          FuncRaisesClientError(code, hdr)
    \/ FuncRaisesRequestException
    \/ RateLimitSleep
    \/ PerformFailover
    \/ TimePasses

(*************************************************************************)
(* Order executor: src/hydra/order_executor.py                            *)
(*************************************************************************)
Assets == {"USDT", "BTC", "ETH"}

\* Assets a commission can be charged in.
CommissionAssets == Assets \cup {"BNB"}

Sides == {"BUY", "SELL"}

\* Fills per order.
MaxFills == 2

\* Largest quantity of one fill, in units of 0.00000001.
MaxFillQty == 2

FillRecords ==
    [qty : 1..MaxFillQty, quoteQty : 1..MaxFillQty, commission : 0..1,
     commissionAsset : {"ETH", "BNB"}]

FillLists == UNION {[1..n -> FillRecords] : n \in 1..MaxFills}

\* The quantity one fill brings in: qty on a BUY, quoteQty on a SELL.
FillReceived(side, fill) == IF side = "BUY" THEN fill.qty ELSE fill.quoteQty

RECURSIVE TotalQtyReceived(_, _)
TotalQtyReceived(side, fills) ==
    IF fills = <<>> THEN 0
    ELSE FillReceived(side, fills[1]) + TotalQtyReceived(side, Tail(fills))

RECURSIVE TotalCommissionInAsset(_)
TotalCommissionInAsset(fills) ==
    IF fills = <<>> THEN 0
    ELSE fills[1].commission + TotalCommissionInAsset(Tail(fills))

\* commission_asset after the loop over the fills: the one of the last fill.
LoopCommissionAsset(fills) == fills[Len(fills)].commissionAsset

\* The amount execute_single_path carries into the next hop.
ReceivedAmount(side, fills, asset_to) ==
    IF LoopCommissionAsset(fills) = asset_to
      THEN TotalQtyReceived(side, fills) - TotalCommissionInAsset(fills)
      ELSE TotalQtyReceived(side, fills)

FillInit ==
    /\ fill_side \in Sides
    /\ fill_asset_to = "ETH"
    /\ fill_list \in FillLists
    /\ fill_amount = -1

AccountFills ==
    /\ fill_amount = -1
    /\ fill_amount' = ReceivedAmount(fill_side, fill_list, fill_asset_to)
    /\ UNCHANGED <<nonFillVars, fill_side, fill_asset_to, fill_list>>

FillQuiet ==
    /\ fill_side = "BUY"
    /\ fill_asset_to = "ETH"
    /\ fill_list = <<>>
    /\ fill_amount = -1

\* --- the market the executor trades on ---
\* None.
NoSymbol == ""

NoOrderId == 0

\* Keys of the tickers dict.
Tickers == {"BTCUSDT", "ETHUSDT"}

\* exchange_info: status and LOT_SIZE filter (in units of 0.00000001) of
\* every listed symbol.
ExchangeSymbols ==
    [s \in Tickers |->
        [status |-> IF s = "BTCUSDT" THEN "TRADING" ELSE "BREAK",
         minQty |-> 2, maxQty |-> 6, stepSize |-> 2]]

\* A resolution that sells in both directions.
get_symbol_and_side_AlwaysSell(tk, asset_from, asset_to) ==
    IF asset_from \o asset_to \in tk
      THEN <<asset_from \o asset_to, "SELL">>
    ELSE IF asset_from \o "_" \o asset_to \in tk
      THEN <<asset_from \o "_" \o asset_to, "SELL">>
    ELSE IF asset_to \o asset_from \in tk
      THEN <<asset_to \o asset_from, "SELL">>
    ELSE IF asset_to \o "_" \o asset_from \in tk
      THEN <<asset_to \o "_" \o asset_from, "SELL">>
    ELSE <<NoSymbol, NoSymbol>>

\* DataAnalyzer.get_symbol_and_side: XY or X_Y listed means SELL, otherwise
\* YX or Y_X listed means BUY, otherwise (None, None).
get_symbol_and_side(tk, asset_from, asset_to) ==
    IF asset_from \o asset_to \in tk
      THEN <<asset_from \o asset_to, "SELL">>
    ELSE IF asset_from \o "_" \o asset_to \in tk
      THEN <<asset_from \o "_" \o asset_to, "SELL">>
    ELSE IF asset_to \o asset_from \in tk
      THEN <<asset_to \o asset_from, "BUY">>
    ELSE IF asset_to \o "_" \o asset_from \in tk
      THEN <<asset_to \o "_" \o asset_from, "BUY">>
    ELSE <<NoSymbol, NoSymbol>>

\* The LOT_SIZE branch of adjust_quantity_to_filters: nothing below minQty,
\* otherwise the quantity capped at maxQty and cut down to minQty plus a
\* whole number of steps.
LotSizeAdjust_RoundsUp(f, quantity) ==
    IF quantity < f.minQty THEN 0
    ELSE ((Min2(quantity, f.maxQty) - f.minQty + f.stepSize - 1)
             \div f.stepSize) * f.stepSize + f.minQty

LotSizeAdjust(f, quantity) ==
    IF quantity < f.minQty THEN 0
    ELSE ((Min2(quantity, f.maxQty) - f.minQty) \div f.stepSize)
             * f.stepSize + f.minQty

\* RiskManager.adjust_quantity_to_filters; holds_filters says whether the risk
\* manager has the exchange info. Quantities are whole units of 0.00000001,
\* which quantize(ROUND_DOWN) keeps.
adjust_quantity_to_filters(holds_filters, symbol, quantity) ==
    IF ~holds_filters \/ symbol \notin DOMAIN ExchangeSymbols
      THEN quantity
      ELSE LotSizeAdjust(ExchangeSymbols[symbol], quantity)

\* Methods main.py, risk_manager.py and order_executor.py call on their
\* collaborators and src/ does not define.
OptionalMethods ==
    {"get_dynamic_strategy_parameters", "get_path_symbols",
     "get_asset_details", "get_current_regime", "get_market_quality_metrics"}

\* --- trade instructions ---
\* The shape execute_single_path reads.
DocumentedInstruction(path, amount) ==
    [path_info |-> [path |-> path], investment_size |-> amount]

\* The shape _optimize_portfolio_allocation_hydra writes, which is what
\* generate_trade_instructions returns.
HydraInstruction(path, amount, strategy_type) ==
    [path |-> path, investment_amount |-> amount,
     strategy_type |-> strategy_type]

InstructionPaths ==
    {<<"USDT", "BTC", "USDT">>, <<"USDT", "ETH", "USDT">>,
     <<"BTC", "ETH", "BTC">>, <<"BTC", "USDT", "ETH">>}

InstructionAmounts == {1, 5}

DocumentedInstructions ==
    {DocumentedInstruction(p, a) : p \in InstructionPaths,
                                   a \in InstructionAmounts}

HydraInstructions ==
    {HydraInstruction(<<"USDT", "BTC", "USDT">>, 5, "single_path")}

\* dict.get(key, default) and dict[key] (KeyError when the key is absent).
HasKey(d, key) == key \in DOMAIN d

DictGet(d, key, default) == IF HasKey(d, key) THEN d[key] ELSE default

\* --- ExecutionResult (a dataclass without defaults) ---
ExecutionResultFields ==
    {"success", "symbol", "side", "quantity", "order_id", "executed_price",
     "commission", "error_message", "execution_time"}

\* Keyword arguments of the three places that build an ExecutionResult.
ExecuteTradeFailureKeywords == ExecutionResultFields

LiveTradeSuccessKeywords == ExecutionResultFields \ {"order_id"}

LiveTradeFailureKeywords == ExecutionResultFields \ {"order_id"}

\* The generated __init__ returns only when every field is given; otherwise
\* it raises TypeError.
Constructs(keywords) == keywords = ExecutionResultFields

\* --- results ---
\* An ExecutionResult as execute_single_path reads it.
TradeResult(success, symbol, side, quantity, order_id, error_message) ==
    [success |-> success, symbol |-> symbol, side |-> side,
     quantity |-> quantity, order_id |-> order_id,
     error_message |-> error_message]

PathExecutionResult(path, success, initial_amount, final_amount, trades) ==
    [path |-> path, success |-> success, initial_amount |-> initial_amount,
     final_amount |-> final_amount,
     profit_loss |-> final_amount - initial_amount,
     execution_results |-> trades]

\* What a finished future holds: a result, or the exception of its worker.
Raised(exception) == [exception |-> exception]

HasRaised(outcome) == HasKey(outcome, "exception")

\* The result the collector builds for a future that raised.
ErrorResult(instruction) ==
    [path |-> DictGet(DictGet(instruction, "path_info", <<>>), "path", <<>>),
     success |-> FALSE,
     initial_amount |-> DictGet(instruction, "investment_size", 0),
     final_amount |-> DictGet(instruction, "investment_size", 0),
     profit_loss |-> 0,
     execution_results |-> <<>>]

\* --- circuit breaker and retry handler (resilience.py) ---
failure_threshold == 5

recovery_timeout == 60

max_retries == 3

MaxWorkers == 5

NoException == "none"

\* except (RequestException, Timeout, ConnectionError) of RetryHandler.call
Retryable(exception) ==
    exception \in {"RequestException", "Timeout", "ConnectionError"}

\* --- workers ---
\* A submitted instruction before a pool thread picks it up.
Queued ==
    [pc |-> "queued", path |-> <<>>, initial_amount |-> 0,
     current_amount |-> 0, i |-> 0, execution_results |-> <<>>,
     symbol |-> NoSymbol, side |-> NoSymbol, quantity |-> 0,
     order_quantity |-> 0, response_id |-> NoOrderId,
     order_details |-> FALSE, trade_result |-> <<>>, exception |-> NoException, attempt |-> 0,
     outcome |-> <<>>]

Running == {k \in DOMAIN futures :
               futures[k].pc \notin {"queued", "finished", "collected"}}

At(k, pc) == k \in DOMAIN futures /\ futures[k].pc = pc

Set(k, f) == futures' = [futures EXCEPT ![k] = f]

\* The order_params of the trade worker k is in.
OrderOf(k) ==
    [future |-> k, hop |-> futures[k].i, symbol |-> futures[k].symbol,
     side |-> futures[k].side, quantity |-> futures[k].order_quantity]

\* --- execute_instructions and the pool ---
\* Lists execute_instructions is called with: one or two instructions of
\* either shape, or one more than the pool has workers.
InstructionBatches ==
    LET one == DocumentedInstructions \cup HydraInstructions
        doc == DocumentedInstruction(<<"USDT", "BTC", "USDT">>, 5)
        hyd == HydraInstruction(<<"USDT", "BTC", "USDT">>, 5, "single_path")
    IN  {<<a>> : a \in one} \cup {<<a, b>> : a \in one, b \in {doc, hyd}}
        \cup {[k \in 1..(MaxWorkers + 1) |-> IF k = d THEN doc ELSE hyd] :
                  d \in {0, 1, MaxWorkers + 1}}

\* The executor as constructed; the breaker of _execute_live_trade is CLOSED
\* and has counted the failed trades of earlier calls.
ExecInit ==
    /\ instructions \in InstructionBatches \cup {<<>>}
    /\ futures = <<>>
    /\ results = <<>>
    /\ exec_pc = "call"
    /\ execution_history = <<>>
    /\ persisted = <<>>
    /\ cb_state = "CLOSED"
    /\ cb_failure_count \in {0, failure_threshold - 1}
    /\ cb_success_count = 0
    /\ cb_elapsed = 0
    /\ tested = {}
    /\ placed = {}
    /\ next_order_id = 1
    /\ risk_filters \in BOOLEAN
    /\ supplied \in {{}, OptionalMethods}

\* execute_instructions up to the submission of every instruction.
ExecuteInstructions ==
    /\ exec_pc = "call"
    /\ IF instructions = <<>>
         THEN exec_pc' = "returned" /\ UNCHANGED futures
         ELSE /\ exec_pc' = "pool"
              /\ futures' = [k \in DOMAIN instructions |-> Queued]
    /\ UNCHANGED <<nonExecVars, instructions, results, execution_history,
                   persisted, cb_state, cb_failure_count, cb_success_count,
                   cb_elapsed, tested, placed, next_order_id, risk_filters, supplied>>

\* A pool with a thread for every instruction.
PoolSize_Unbounded(n) == n

\* ThreadPoolExecutor(max_workers=min(len(instructions), 5))
PoolSize(n) == Min2(n, MaxWorkers)

\* A free pool thread takes the oldest queued instruction.
PoolStart(k) ==
    /\ exec_pc = "pool"
    /\ At(k, "queued")
    /\ \A j \in 1..(k - 1) : futures[j].pc # "queued"
    /\ Cardinality(Running) < PoolSize(Len(instructions))
    /\ Set(k, [futures[k] EXCEPT !.pc = "start"])
    /\ UNCHANGED <<nonExecVars, instructions, results, exec_pc,
                   execution_history, persisted, cb_state, cb_failure_count,
                   cb_success_count, cb_elapsed, tested, placed,
                   next_order_id, risk_filters, supplied>>

\* The worker's function returns res or raises.
Finish(f, res) == [f EXCEPT !.pc = "finished", !.outcome = res]

\* A path that goes on after a hop that failed.
Abort_Continues(f) == [f EXCEPT !.pc = "hop", !.i = f.i + 1]

\* return PathExecutionResult(success=False, ...) of an aborted path.
Abort(f) ==
    Finish(f, PathExecutionResult(f.path, FALSE, f.initial_amount,
                                  f.current_amount, f.execution_results))

\* execute_single_path reads instruction["path_info"]["path"] and
\* instruction["investment_size"].
ReadInstruction(k) ==
    /\ At(k, "start")
    /\ LET ins == instructions[k]
           f   == futures[k]
       IN  IF /\ HasKey(ins, "path_info")
              /\ HasKey(ins.path_info, "path")
              /\ HasKey(ins, "investment_size")
             THEN Set(k, [f EXCEPT !.pc = "hop",
                                   !.path = ins.path_info.path,
                                   !.initial_amount = ins.investment_size,
                                   !.current_amount = ins.investment_size])
             ELSE Set(k, Finish(f, Raised("KeyError")))
    /\ UNCHANGED <<nonExecVars, instructions, results, exec_pc,
                   execution_history, persisted, cb_state, cb_failure_count,
                   cb_success_count, cb_elapsed, tested, placed,
                   next_order_id, risk_filters, supplied>>

\* The head of the loop over the hops: resolve the symbol, fit the quantity
\* to the filters and call execute_trade; after the last hop, return.
HopBegin(k) ==
    /\ At(k, "hop")
    /\ LET f   == futures[k]
           res == get_symbol_and_side(Tickers, f.path[f.i + 1],
                                      f.path[f.i + 2])
           adj == adjust_quantity_to_filters(risk_filters, res[1],
                                             f.current_amount)
       IN  IF f.i >= Len(f.path) - 1
             THEN Set(k, Finish(f, PathExecutionResult(f.path,
                         f.current_amount - f.initial_amount > 0,
                         f.initial_amount, f.current_amount,
                         f.execution_results)))
           ELSE IF res[1] = NoSymbol \/ adj <= 0
             THEN Set(k, Abort(f))
           ELSE Set(k, [f EXCEPT !.pc = "breaker", !.symbol = res[1],
                                 !.side = res[2], !.quantity = adj,
                                 !.attempt = 0,
                                 !.exception = NoException,
                                 !.response_id = NoOrderId,
                                 !.order_details = FALSE])
    /\ UNCHANGED <<nonExecVars, instructions, results, exec_pc,
                   execution_history, persisted, cb_state, cb_failure_count,
                   cb_success_count, cb_elapsed, tested, placed,
                   next_order_id, risk_filters, supplied>>

\* --- execute_trade and _execute_live_trade ---
\* CircuitBreaker.call before the protected function runs: an OPEN breaker
\* turns HALF_OPEN once recovery_timeout has passed and rejects otherwise.
BreakerEnter(k) ==
    /\ At(k, "breaker")
    /\ LET f == futures[k]
       IN  IF cb_state = "OPEN" /\ cb_elapsed < recovery_timeout
             THEN /\ Set(k, [f EXCEPT !.pc = "retry",
                                      !.exception = "CircuitOpen"])
                  /\ UNCHANGED cb_state
             ELSE /\ Set(k, [f EXCEPT !.pc = "check"])
                  /\ cb_state' = IF cb_state = "OPEN" THEN "HALF_OPEN"
                                 ELSE cb_state
    /\ UNCHANGED <<nonExecVars, instructions, results, exec_pc,
                   execution_history, persisted, cb_failure_count,
                   cb_success_count, cb_elapsed, tested, placed,
                   next_order_id, risk_filters, supplied>>

\* except Exception of _execute_live_trade: build the failure result.
Handler(f, message) ==
    IF Constructs(LiveTradeFailureKeywords)
      THEN [f EXCEPT !.pc = "breaker_exit",
                     !.trade_result = TradeResult(FALSE, f.symbol, f.side,
                                          f.quantity, NoOrderId, message)]
      ELSE [f EXCEPT !.pc = "breaker_exit", !.exception = "TypeError"]

\* _is_symbol_active, _get_symbol_info (each fetches the exchange info, and
\* answers False or None when the fetch fails) and the quantity adjustment.
CheckSymbol(k, fetched_status, fetched_info) ==
    /\ At(k, "check")
    /\ LET f      == futures[k]
           listed == f.symbol \in DOMAIN ExchangeSymbols
           active == /\ fetched_status /\ listed
                     /\ ExchangeSymbols[f.symbol].status = "TRADING"
           adj    == adjust_quantity_to_filters(risk_filters, f.symbol,
                                                f.quantity)
       IN  IF ~active THEN Set(k, Handler(f, "not active"))
           ELSE IF ~(fetched_info /\ listed)
             THEN Set(k, Handler(f, "no symbol info"))
           ELSE IF adj <= 0 THEN Set(k, Handler(f, "quantity is zero"))
           ELSE Set(k, [f EXCEPT !.pc = "test", !.order_quantity = adj])
    /\ UNCHANGED <<nonExecVars, instructions, results, exec_pc,
                   execution_history, persisted, cb_state, cb_failure_count,
                   cb_success_count, cb_elapsed, tested, placed,
                   next_order_id, risk_filters, supplied>>

\* A tester that places the real order whatever the test order said.
TestGate_Ignored(test_returned) == TRUE

\* place_order is reached only when test_place_order has returned.
TestGate(test_returned) == test_returned

\* api_client.test_place_order(order_params)
TestOrder(k, test_returned) ==
    /\ At(k, "test")
    /\ LET f == futures[k]
       IN  /\ tested' = IF test_returned THEN tested \cup {OrderOf(k)}
                        ELSE tested
           /\ IF TestGate(test_returned)
                THEN Set(k, [f EXCEPT !.pc = "place"])
                ELSE Set(k, Handler(f, "test order failed"))
    /\ UNCHANGED <<nonExecVars, instructions, results, exec_pc,
                   execution_history, persisted, cb_state, cb_failure_count,
                   cb_success_count, cb_elapsed, placed, next_order_id,
                   risk_filters, supplied>>

PlaceResponses == {"order", "no_order_id", "raises"}

\* api_client.place_order(order_params) with the same order_params.
PlaceOrder(k, response) ==
    /\ At(k, "place")
    /\ LET f  == futures[k]
           id == IF response = "order" THEN next_order_id ELSE NoOrderId
       IN  /\ placed' = placed \cup {[order |-> OrderOf(k), order_id |-> id]}
           /\ next_order_id' = IF response = "order" THEN next_order_id + 1
                               ELSE next_order_id
           /\ IF response = "order"
                THEN Set(k, [f EXCEPT !.pc = "lookup", !.response_id = id])
                ELSE Set(k, Handler(f, "invalid response"))
    /\ UNCHANGED <<nonExecVars, instructions, results, exec_pc,
                   execution_history, persisted, cb_state, cb_failure_count,
                   cb_success_count, cb_elapsed, tested, risk_filters, supplied>>

\* _get_order_details, the commission, and the success result.
LookupOrder(k, found) ==
    /\ At(k, "lookup")
    /\ LET f == futures[k]
           g == [f EXCEPT !.order_details = found]
       IN  IF ~found THEN Set(k, Handler(g, "no order details"))
           ELSE IF Constructs(LiveTradeSuccessKeywords)
             THEN Set(k, [g EXCEPT !.pc = "breaker_exit",
                             !.trade_result = TradeResult(TRUE, f.symbol,
                                 f.side, f.order_quantity, f.response_id,
                                 "")])
           ELSE Set(k, Handler(g, "TypeError"))
    /\ UNCHANGED <<nonExecVars, instructions, results, exec_pc,
                   execution_history, persisted, cb_state, cb_failure_count,
                   cb_success_count, cb_elapsed, tested, placed,
                   next_order_id, risk_filters, supplied>>

\* CircuitBreaker.call after the protected function: _on_success and the
\* result goes back to execute_single_path, or _on_failure and the exception
\* goes on to the retry handler.
BreakerExit(k) ==
    /\ At(k, "breaker_exit")
    /\ LET f == futures[k]
       IN  IF f.exception = NoException
             THEN /\ cb_failure_count' = 0
                  /\ cb_success_count' =
                        IF cb_state # "HALF_OPEN" THEN cb_success_count
                        ELSE IF cb_success_count + 1 >= 2 THEN 0
                        ELSE cb_success_count + 1
                  /\ cb_state' =
                        IF cb_state = "HALF_OPEN" /\ cb_success_count + 1 >= 2
                          THEN "CLOSED" ELSE cb_state
                  /\ UNCHANGED cb_elapsed
                  /\ Set(k, [f EXCEPT !.pc = "after",
                                !.execution_results =
                                    Append(f.execution_results,
                                           f.trade_result)])
             ELSE /\ cb_failure_count' = cb_failure_count + 1
                  /\ cb_elapsed' = 0
                  /\ cb_state' =
                        IF cb_state = "HALF_OPEN" THEN "OPEN"
                        ELSE IF cb_failure_count + 1 >= failure_threshold
                          THEN "OPEN"
                        ELSE cb_state
                  /\ UNCHANGED cb_success_count
                  /\ Set(k, [f EXCEPT !.pc = "retry"])
    /\ UNCHANGED <<nonExecVars, instructions, results, exec_pc,
                   execution_history, persisted, tested, placed,
                   next_order_id, risk_filters, supplied>>

\* RetryHandler.call on an exception, and the except of execute_trade that
\* turns whatever comes out into a failure result.
RetryExit(k) ==
    /\ At(k, "retry")
    /\ LET f == futures[k]
       IN  IF Retryable(f.exception) /\ f.attempt < max_retries
             THEN Set(k, [f EXCEPT !.pc = "breaker",
                                   !.attempt = f.attempt + 1,
                                   !.exception = NoException])
           ELSE IF Constructs(ExecuteTradeFailureKeywords)
             THEN Set(k, [f EXCEPT !.pc = "after",
                             !.execution_results =
                                 Append(f.execution_results,
                                        TradeResult(FALSE, f.symbol, f.side,
                                            f.quantity, NoOrderId,
                                            f.exception))])
           ELSE Set(k, Finish(f, Raised("TypeError")))
    /\ UNCHANGED <<nonExecVars, instructions, results, exec_pc,
                   execution_history, persisted, cb_state, cb_failure_count,
                   cb_success_count, cb_elapsed, tested, placed,
                   next_order_id, risk_filters, supplied>>

\* execute_single_path after execute_trade: a failed trade, missing fills or
\* a received amount <= 0 end the path; otherwise the received amount goes
\* into the next hop.
AfterTrade(k) ==
    /\ At(k, "after")
    /\ LET f == futures[k]
       IN  IF ~Last(f.execution_results).success
             THEN Set(k, Abort(f))
             ELSE \E fills \in FillLists \cup {<<>>} :
                    IF fills = <<>> THEN Set(k, Abort(f))
                    ELSE LET amount == ReceivedAmount(f.side, fills,
                                                      f.path[f.i + 2])
                             g == [f EXCEPT !.current_amount = amount]
                         IN  IF amount <= 0 THEN Set(k, Abort(g))
                             ELSE Set(k, [g EXCEPT !.pc = "hop",
                                                   !.i = f.i + 1])
    /\ UNCHANGED <<nonExecVars, instructions, results, exec_pc,
                   execution_history, persisted, cb_state, cb_failure_count,
                   cb_success_count, cb_elapsed, tested, placed,
                   next_order_id, risk_filters, supplied>>

\* as_completed hands over a finished future; its result, or an error result
\* when it raised, is appended.
Collect(k) ==
    /\ exec_pc = "pool"
    /\ At(k, "finished")
    /\ results' = Append(results,
                         IF HasRaised(futures[k].outcome)
                           THEN ErrorResult(instructions[k])
                           ELSE futures[k].outcome)
    /\ Set(k, [futures[k] EXCEPT !.pc = "collected"])
    /\ UNCHANGED <<nonExecVars, instructions, exec_pc, execution_history,
                   persisted, cb_state, cb_failure_count, cb_success_count,
                   cb_elapsed, tested, placed, next_order_id, risk_filters, supplied>>

\* execute_instructions_parallel returns; the results join the history.
ParallelReturns ==
    /\ exec_pc = "pool"
    /\ \A k \in DOMAIN futures : futures[k].pc = "collected"
    /\ exec_pc' = "persist"
    /\ execution_history' = execution_history \o results
    /\ UNCHANGED <<nonExecVars, instructions, futures, results, persisted,
                   cb_state, cb_failure_count, cb_success_count, cb_elapsed,
                   tested, placed, next_order_id, risk_filters, supplied>>

\* risk_manager.get_current_regime(), when supplied.
get_current_regime == "normal"

\* Every result is persisted with the regime and its relative profit (as the
\* pair numerator, denominator); without get_current_regime the first
\* result raises AttributeError.
PersistResults ==
    /\ exec_pc = "persist"
    /\ IF "get_current_regime" \notin supplied
         THEN exec_pc' = "raised" /\ UNCHANGED persisted
         ELSE /\ exec_pc' = "returned"
              /\ persisted' =
                    [n \in DOMAIN results |->
                        [result |-> results[n],
                         predicted_profit |->
                             IF results[n].initial_amount > 0
                               THEN <<results[n].profit_loss,
                                      results[n].initial_amount>>
                               ELSE <<0, 1>>,
                         operating_regime |-> get_current_regime]]
    /\ UNCHANGED <<nonExecVars, instructions, futures, results,
                   execution_history, cb_state, cb_failure_count,
                   cb_success_count, cb_elapsed, tested, placed,
                   next_order_id, risk_filters, supplied>>

\* Time passes while the breaker is OPEN, seen by the next call that reads
\* the clock.
BreakerTimePasses ==
    /\ \E k \in DOMAIN futures : At(k, "breaker")
    /\ cb_state = "OPEN"
    /\ cb_elapsed < recovery_timeout
    /\ cb_elapsed' = Min2(cb_elapsed + TickSeconds, recovery_timeout)
    /\ UNCHANGED <<nonExecVars, instructions, futures, results, exec_pc,
                   execution_history, persisted, cb_state, cb_failure_count,
                   cb_success_count, tested, placed, next_order_id,
                   risk_filters, supplied>>

ExecNext ==
    \/ ExecuteInstructions
    \/ \E k \in DOMAIN futures : PoolStart(k)
    \/ \E k \in DOMAIN futures : ReadInstruction(k)
    \/ \E k \in DOMAIN futures : HopBegin(k)
    \/ \E k \in DOMAIN futures : BreakerEnter(k)
    \/ \E k \in DOMAIN futures, a, b \in BOOLEAN : CheckSymbol(k, a, b)
    \/ \E k \in DOMAIN futures, ok \in BOOLEAN : TestOrder(k, ok)
    \/ \E k \in DOMAIN futures, r \in PlaceResponses : PlaceOrder(k, r)
    \/ \E k \in DOMAIN futures, found \in BOOLEAN : LookupOrder(k, found)
    \/ \E k \in DOMAIN futures : BreakerExit(k)
    \/ \E k \in DOMAIN futures : RetryExit(k)
    \/ \E k \in DOMAIN futures : AfterTrade(k)
    \/ \E k \in DOMAIN futures : Collect(k)
    \/ ParallelReturns
    \/ PersistResults
    \/ BreakerTimePasses

ExecQuiet ==
    /\ instructions = <<>>
    /\ futures = <<>>
    /\ results = <<>>
    /\ exec_pc = "returned"
    /\ execution_history = <<>>
    /\ persisted = <<>>
    /\ cb_state = "CLOSED"
    /\ cb_failure_count = 0
    /\ cb_success_count = 0
    /\ cb_elapsed = 0
    /\ tested = {}
    /\ placed = {}
    /\ next_order_id = 1
    /\ risk_filters = FALSE

(*************************************************************************)
(* Risk layer: risk_manager.py (amounts in units of 0.01)                 *)
(*************************************************************************)
\* 0.05: the risk fraction in percent, and the risk cap of one position.
max_portfolio_risk == 5

\* 0.02
max_daily_loss == 2

max_concurrent_positions == 5

\* Decimal(10)
min_position_size == 1000

\* _estimate_max_drawdown, in thousandths: 2% plus 0.5% per hop, at most 10%.
estimate_max_drawdown(path) == Min2(100, 20 + 5 * (Len(path) - 1))

\* check_risk_limits(new_position_size, path_analysis) in the state the risk
\* manager is in.
check_risk_limits(pnl, positions, new_position_size, max_drawdown) ==
    IF pnl < -max_daily_loss THEN FALSE
    ELSE IF Len(positions) >= max_concurrent_positions THEN FALSE
    ELSE IF new_position_size < min_position_size THEN FALSE
    ELSE IF max_drawdown * new_position_size > max_portfolio_risk * 1000
      THEN FALSE
    ELSE TRUE

\* volatility_multiplier of get_dynamic_risk_parameters: 1 unless the
\* exchange client supplies market quality metrics.
VolatilityMultipliers(capabilities) ==
    IF "get_market_quality_metrics" \in capabilities THEN {1, 2} ELSE {1}

\* calculate_investment_size: balance * min(r, dynamic max_portfolio_risk),
\* the whole balance when that is below 0.0001, nothing when the outcome is
\* below min_position_size. Both rates are in percent.
calculate_investment_size_WholeBalance(balance, risk_percentage, dynamic_risk) ==
    IF balance < min_position_size THEN 0 ELSE balance

calculate_investment_size(balance, risk_percentage, dynamic_risk) ==
    IF balance <= 0 THEN 0
    ELSE LET scaled == (balance * Min2(risk_percentage, dynamic_risk)) \div 100
             investment == IF scaled * 100 < 1 THEN balance ELSE scaled
         IN  IF investment < min_position_size THEN 0 ELSE investment

\* Symbols the analysed paths trade on.
AnalysisSymbols == {"BTCUSDT", "ETHBTC"}

\* Longest path analysed.
MaxPathLen == 18

\* What a ticker may hold for a symbol: level, wide, crossed and zero quotes,
\* and a ticker without an ask price.
Quotes ==
    {[bidPrice |-> 100, askPrice |-> 100],
     [bidPrice |-> 100, askPrice |-> 103],
     [bidPrice |-> 100, askPrice |-> 80],
     [bidPrice |-> 100, askPrice |-> 0],
     [bidPrice |-> 0, askPrice |-> 100],
     [bidPrice |-> 100]}

\* Ticker maps: every symbol quoted or missing.
TickerMaps == UNION {[S -> Quotes] : S \in SUBSET AnalysisSymbols}

\* USDT, BTC, USDT, ... of n assets.
Alternating(n) == [i \in 1..n |-> IF i % 2 = 1 THEN "USDT" ELSE "BTC"]

\* Paths handed to the analysis.
AnalysisPaths ==
    {Alternating(n) : n \in 1..MaxPathLen}
        \cup {<<"USDT", "BTC", "ETH">>, <<"USDT", "ETH", "BTC">>,
              <<"USDT", "BTC", "ETH", "USDT">>}

\* _estimate_spread: (ask - bid) / bid, 1% for a symbol without quotes or
\* with a bid that is not positive. The quotes divide exactly.
estimate_spread(symbol, tk) ==
    IF symbol \notin DOMAIN tk THEN 10
    ELSE LET ticker_data == tk[symbol]
         IN  IF /\ HasKey(ticker_data, "bidPrice")
                /\ HasKey(ticker_data, "askPrice")
                /\ ticker_data.bidPrice > 0
               THEN ((ticker_data.askPrice - ticker_data.bidPrice) * 1000)
                        \div ticker_data.bidPrice
               ELSE 10

\* Symbol of hop i of the path, NoSymbol when no ticker lists the pair.
HopSymbol(path, tk, i) ==
    get_symbol_and_side(DOMAIN tk, path[i], path[i + 1])[1]

\* volatility_risk of _calculate_path_risk_score after the hops i and later.
RECURSIVE VolatilityRisk(_, _, _)
VolatilityRisk(path, tk, i) ==
    IF i > Len(path) - 1 THEN 0
    ELSE estimate_spread(HopSymbol(path, tk, i), tk)
            + VolatilityRisk(path, tk, i + 1)

\* _calculate_path_risk_score
calculate_path_risk_score(path, tk) ==
    IF Len(path) <= 2 THEN 300
    ELSE Min2(1000, (Len(path) - 2) * 100 + VolatilityRisk(path, tk, 1))

\* spread_penalty of _calculate_execution_probability: 1% for every hop
\* whose symbol is found and whose spread exceeds 2%.
RECURSIVE SpreadPenalty(_, _, _)
SpreadPenalty(path, tk, i) ==
    IF i > Len(path) - 1 THEN 0
    ELSE (IF /\ HopSymbol(path, tk, i) # NoSymbol
             /\ estimate_spread(HopSymbol(path, tk, i), tk) > 20
            THEN 10 ELSE 0)
            + SpreadPenalty(path, tk, i + 1)

Max2(a, b) == IF a >= b THEN a ELSE b

\* The lower clamp of _calculate_execution_probability.
FloorProbability_None(p) == p

FloorProbability(p) == Max2(500, p)

\* _calculate_execution_probability
calculate_execution_probability(path, tk) ==
    FloorProbability(Min2(1000,
        950 - (Len(path) - 2) * 20 - SpreadPenalty(path, tk, 1)))

\* What the simulation of _calculate_path_absolute_profit and the Sharpe
\* ratio built on it may come to for the order books of the moment: the
\* expected profit in 0.01 and excess_return / (volatility * investment).
SimulationOutcomes ==
    {[expected_profit |-> 0, sharpe_ratio |-> -2],
     [expected_profit |-> 5, sharpe_ratio |-> 400],
     [expected_profit |-> 10, sharpe_ratio |-> 800],
     [expected_profit |-> 20, sharpe_ratio |-> 1600]}

\* A hop of the path has no symbol in the tickers.
HopMissing(path, tk) ==
    \E i \in 1..(Len(path) - 1) : HopSymbol(path, tk, i) = NoSymbol

\* _calculate_path_absolute_profit: 0 when a hop has no symbol.
calculate_path_absolute_profit(path, tk, outcome) ==
    IF HopMissing(path, tk) THEN 0 ELSE outcome.expected_profit

\* total_volatility of _estimate_path_volatility after the hops i and later:
\* the spreads of the hops whose symbol is found.
RECURSIVE TotalVolatility(_, _, _)
TotalVolatility(path, tk, i) ==
    IF i > Len(path) - 1 THEN 0
    ELSE (IF HopSymbol(path, tk, i) # NoSymbol
            THEN estimate_spread(HopSymbol(path, tk, i), tk) ELSE 0)
            + TotalVolatility(path, tk, i + 1)

\* _calculate_sharpe_ratio: 0 without volatility or investment. The
\* volatility is total_volatility over the hops, which has its sign.
calculate_sharpe_ratio(path, tk, investment, outcome) ==
    IF TotalVolatility(path, tk, 1) <= 0 \/ investment <= 0 THEN 0
    ELSE IF HopMissing(path, tk) THEN -2
    ELSE outcome.sharpe_ratio

\* _calculate_correlation_score
calculate_correlation_score(path) ==
    IF Cardinality({path[i] : i \in DOMAIN path}) <= 2 THEN 300 ELSE 600

\* The PathAnalysis _analyze_path_risk returns.
analyze_path_risk(path_info, investment_size, tk, outcome) ==
    [path_info |-> path_info,
     expected_profit |->
         calculate_path_absolute_profit(path_info.path, tk, outcome),
     risk_score |-> calculate_path_risk_score(path_info.path, tk),
     sharpe_ratio |->
         calculate_sharpe_ratio(path_info.path, tk, investment_size, outcome),
     max_drawdown |-> estimate_max_drawdown(path_info.path),
     execution_probability |->
         calculate_execution_probability(path_info.path, tk),
     correlation_score |-> calculate_correlation_score(path_info.path)]

\* A path_info of the path engine.
PathInfo(path) ==
    [path |-> path, returns_to_start |-> path[1] = path[Len(path)]]

\* 0.5
min_sharpe_ratio == 500

\* allocation_pct of _optimize_portfolio_allocation_hydra, in thousandths:
\* 0.2, or min(0.6, sharpe_ratio / 2) for a Sharpe ratio above the minimum,
\* and half as much again for a path that does not return to its start.
AllocationPct(sharpe_ratio, returns_to_start) ==
    LET base == IF sharpe_ratio > min_sharpe_ratio
                  THEN Min2(600, sharpe_ratio \div 2) ELSE 200
    IN  IF returns_to_start THEN base ELSE (base * 3) \div 2

RECURSIVE SelectSeq2(_, _)
SelectSeq2(s, keep) ==
    IF s = <<>> THEN <<>>
    ELSE IF keep[1] THEN <<s[1]>> \o SelectSeq2(Tail(s), Tail(keep))
    ELSE SelectSeq2(Tail(s), Tail(keep))

\* return_paths + forward_paths, as generate_trade_instructions splits the
\* analyses and the allocator joins them.
AllPaths(analyses) ==
    LET fwd == [n \in DOMAIN analyses |->
                   ~analyses[n].path_info.returns_to_start]
        ret == [n \in DOMAIN analyses |->
                   analyses[n].path_info.returns_to_start]
    IN  SelectSeq2(analyses, ret) \o SelectSeq2(analyses, fwd)

\* The sort key (not returns_to_start, expected_profit, -risk_score) of a is
\* above that of b.
KeyAbove(a, b) ==
    LET fa == ~a.path_info.returns_to_start
        fb == ~b.path_info.returns_to_start
    IN  \/ fa /\ ~fb
        \/ /\ fa = fb
           /\ \/ a.expected_profit > b.expected_profit
              \/ /\ a.expected_profit = b.expected_profit
                 /\ a.risk_score < b.risk_score

RECURSIVE InsertByKey(_, _)
InsertByKey(sorted, x) ==
    IF sorted = << >> THEN <<x>>
    ELSE IF KeyAbove(x, Head(sorted)) THEN <<x>> \o sorted
    ELSE <<Head(sorted)>> \o InsertByKey(Tail(sorted), x)

RECURSIVE SortByKey(_, _, _)
\* sorted(all_paths, key=..., reverse=True): a stable sort.
SortByKey(list, n, sorted) ==
    IF n > Len(list) THEN sorted
    ELSE SortByKey(list, n + 1, InsertByKey(sorted, list[n]))

\* selected_paths: sorted_paths[:3]
ForwardFirst(analyses) ==
    LET all == SortByKey(AllPaths(analyses), 1, << >>)
    IN  SubSeq(all, 1, Min2(Len(all), 3))

\* _optimize_portfolio_allocation_hydra: path_allocations for the analysed
\* paths of one start asset and its capital.
optimize_portfolio_allocation_hydra(analyses, total_capital) ==
    IF analyses = <<>> THEN <<>>
    ELSE IF Len(analyses) = 1
      THEN <<HydraInstruction(analyses[1].path_info.path, total_capital,
                              "single_path")>>
    ELSE LET sel == ForwardFirst(analyses)
         IN  [n \in DOMAIN sel |->
                 HydraInstruction(sel[n].path_info.path,
                     (total_capital
                         * AllocationPct(sel[n].sharpe_ratio,
                               sel[n].path_info.returns_to_start)) \div 1000,
                     "hydra_multi_head")]

\* The loop of generate_trade_instructions over the paths of one start
\* asset: each is analysed for an equal share of the capital.
AnalysesOf(asset_paths, total_capital, tk, outcomes) ==
    [n \in DOMAIN asset_paths |->
        analyze_path_risk(asset_paths[n], total_capital \div Len(asset_paths),
                          tk, outcomes[n])]

(*************************************************************************)
(* Orchestrator: main.py run_cycle                                        *)
(*************************************************************************)
\* Analysis cycles in one run.
MaxCycles == 2

\* Free balances of the start asset the account may report.
FreeBalances == {0, 2000, 20000}

\* The quotes of the tickers a cycle is given: all level or all wide.
CycleTickerMaps ==
    {[t \in Tickers |-> q] :
        q \in {[bidPrice |-> 100, askPrice |-> 100],
               [bidPrice |-> 100, askPrice |-> 103]}}

\* What the path engine may return for the start asset.
ProfitablePathLists ==
    LET tri == PathInfo(<<"USDT", "BTC", "USDT">>)
        fwd == PathInfo(<<"USDT", "BTC", "ETH">>)
        eth == PathInfo(<<"USDT", "ETH", "USDT">>)
    IN  {<<>>, <<tri>>, <<fwd>>, <<tri, fwd>>, <<eth>>}

\* data_analyzer.get_path_symbols(path, tickers), when supplied: the symbols
\* the hops of the path resolve to.
get_path_symbols(path, tk) ==
    {get_symbol_and_side(tk, path[n], path[n + 1])[1] :
        n \in 1..(Len(path) - 1)} \ {NoSymbol}

\* trading_stats after the results of one cycle are counted.
StatsAfter(stats, execution_results) ==
    LET won  == Cardinality({n \in DOMAIN execution_results :
                                execution_results[n].success})
        lost == Cardinality({n \in DOMAIN execution_results :
                                ~execution_results[n].success})
    IN  [total_trades |-> stats.total_trades + won + lost,
         successful_trades |-> stats.successful_trades + won,
         failed_trades |-> stats.failed_trades + lost]

CycleInitRest ==
    /\ cycle_pc = "idle"
    /\ cycles = 0
    /\ system_status = 0
    /\ free_balance = 0
    /\ start_in_graph = FALSE
    /\ engine_paths = <<>>
    /\ volatility_multiplier = 1
    /\ all_profitable_paths = <<>>
    /\ active_depth_subscriptions = {}
    /\ trade_instructions = <<>>
    /\ trading_stats = [total_trades |-> 0, successful_trades |-> 0,
                        failed_trades |-> 0]

CycleQuiet == CycleInitRest /\ daily_pnl = 0 /\ open_positions = <<>>

\* States add_position and close_position leave the risk manager in: no
\* position or as many as may be open at once, no loss or a daily loss
\* beyond the limit.
RiskStates ==
    /\ open_positions \in
          {<<>>, [n \in 1..max_concurrent_positions |-> [id |-> n]]}
    /\ daily_pnl \in {0, -(max_daily_loss + 1)}

CycleInit == CycleInitRest /\ RiskStates

CycleEnded == {"paused", "returned", "raised", "done"}

\* The test of run_cycle on the system status it fetched.
SystemPaused_Never(status) == FALSE

SystemPaused(status) == status # 0

\* Every tenth ticker message starts run_cycle on the account and market of
\* that moment: the system status is read and a status other than 0 pauses
\* the cycle.
CycleStart(status, free, in_graph, found, vm) ==
    /\ cycle_pc \in CycleEnded \cup {"idle"}
    /\ cycles < MaxCycles
    /\ cycles' = cycles + 1
    /\ system_status' = status
    /\ free_balance' = free
    /\ start_in_graph' = in_graph
    /\ engine_paths' = found
    /\ volatility_multiplier' = vm
    /\ all_profitable_paths' = <<>>
    /\ trade_instructions' = <<>>
    /\ cycle_pc' = IF SystemPaused(status) THEN "paused"
                   ELSE IF Tickers = {} THEN "returned"
                   ELSE "params"
    /\ UNCHANGED <<nonCycleVars, execVars, active_depth_subscriptions,
                   trading_stats, daily_pnl, open_positions>>

\* The market metrics and risk_manager.get_dynamic_strategy_parameters.
CycleParams ==
    /\ cycle_pc = "params"
    /\ cycle_pc' = IF "get_dynamic_strategy_parameters" \in supplied
                     THEN "balance" ELSE "raised"
    /\ UNCHANGED <<nonCycleVars, execVars, cycles, marketVars,
                   all_profitable_paths, active_depth_subscriptions,
                   trade_instructions, trading_stats, daily_pnl,
                   open_positions>>

\* The account balance: the cycle goes on when the start asset has a free
\* balance and is an asset of the graph.
CycleBalance ==
    /\ cycle_pc = "balance"
    /\ cycle_pc' = IF free_balance > 0 /\ start_in_graph THEN "paths"
                   ELSE "returned"
    /\ UNCHANGED <<nonCycleVars, execVars, cycles, marketVars,
                   all_profitable_paths, active_depth_subscriptions,
                   trade_instructions, trading_stats, daily_pnl,
                   open_positions>>

\* find_profitable_paths for the start asset.
CyclePaths ==
    /\ cycle_pc = "paths"
    /\ all_profitable_paths' = engine_paths
    /\ cycle_pc' = IF engine_paths = <<>> THEN "returned"
                   ELSE "subscriptions"
    /\ UNCHANGED <<nonCycleVars, execVars, cycles, marketVars,
                   active_depth_subscriptions, trade_instructions,
                   trading_stats, daily_pnl, open_positions>>

\* The depth streams follow the symbols of the profitable paths.
SubscriptionsAfter_KeepsUnused(active, required) == active \cup required

SubscriptionsAfter(active, required) ==
    LET new_subscriptions == required \ active
        subscribed == active \cup new_subscriptions
        unused_subscriptions == subscribed \ required
    IN  subscribed \ unused_subscriptions

\* The symbols of the hops of the cycle's paths.
RequiredSymbols(paths) ==
    UNION {get_path_symbols(paths[n].path, Tickers) : n \in DOMAIN paths}

CycleSubscriptions ==
    /\ cycle_pc = "subscriptions"
    /\ IF "get_path_symbols" \notin supplied
         THEN cycle_pc' = "raised" /\ UNCHANGED active_depth_subscriptions
         ELSE /\ active_depth_subscriptions' =
                    SubscriptionsAfter(active_depth_subscriptions,
                                       RequiredSymbols(all_profitable_paths))
              /\ cycle_pc' = "instructions"
    /\ UNCHANGED <<nonCycleVars, execVars, cycles, marketVars,
                   all_profitable_paths, trade_instructions, trading_stats,
                   daily_pnl, open_positions>>

\* total_capital of generate_trade_instructions for the start asset.
TotalCapital ==
    calculate_investment_size(free_balance,
                              max_portfolio_risk * volatility_multiplier,
                              max_portfolio_risk * volatility_multiplier)

\* get_dynamic_risk_parameters and generate_trade_instructions: the capital
\* of the start asset is sized, every path is analysed and the allocator
\* turns the analyses into instructions.
CycleInstructions(tk, outcomes) ==
    /\ cycle_pc = "instructions"
    /\ IF "get_asset_details" \notin supplied
         THEN cycle_pc' = "raised" /\ UNCHANGED trade_instructions
         ELSE LET analyses == AnalysesOf(all_profitable_paths, TotalCapital,
                                         tk, outcomes)
                  all_instructions ==
                      IF TotalCapital <= 0 THEN <<>>
                      ELSE optimize_portfolio_allocation_hydra(analyses,
                                                               TotalCapital)
              IN  /\ trade_instructions' = all_instructions
                  /\ cycle_pc' = IF all_instructions = <<>> THEN "returned"
                                 ELSE "execute"
    /\ UNCHANGED <<nonCycleVars, execVars, cycles, marketVars,
                   all_profitable_paths, active_depth_subscriptions,
                   trading_stats, daily_pnl, open_positions>>

\* order_executor.execute_instructions(trade_instructions, ...) is called.
CycleHandover ==
    /\ cycle_pc = "execute"
    /\ cycle_pc' = "executing"
    /\ instructions' = trade_instructions
    /\ futures' = <<>>
    /\ results' = <<>>
    /\ exec_pc' = "call"
    /\ UNCHANGED <<nonCycleVars, execution_history, persisted, cb_state,
                   cb_failure_count, cb_success_count, cb_elapsed, tested,
                   placed, next_order_id, risk_filters, supplied, cycles,
                   marketVars, all_profitable_paths,
                   active_depth_subscriptions, trade_instructions,
                   trading_stats, daily_pnl, open_positions>>

\* execute_instructions hands back its results and they are counted, or its
\* exception ends the cycle.
CycleStats ==
    /\ cycle_pc = "executing"
    /\ exec_pc \in {"returned", "raised"}
    /\ IF exec_pc = "raised"
         THEN cycle_pc' = "raised" /\ UNCHANGED trading_stats
         ELSE /\ cycle_pc' = "done"
              /\ trading_stats' = StatsAfter(trading_stats, results)
    /\ UNCHANGED <<nonCycleVars, execVars, cycles, marketVars,
                   all_profitable_paths, active_depth_subscriptions,
                   trade_instructions, daily_pnl, open_positions>>

CycleNext ==
    \/ \E status \in {0, 1}, free \in FreeBalances, in_graph \in BOOLEAN,
          found \in ProfitablePathLists,
          vm \in VolatilityMultipliers(supplied) :
              CycleStart(status, free, in_graph, found, vm)
    \/ CycleParams
    \/ CycleBalance
    \/ CyclePaths
    \/ CycleSubscriptions
    \/ \E tk \in CycleTickerMaps,
          outcomes \in [DOMAIN all_profitable_paths -> SimulationOutcomes] :
              CycleInstructions(tk, outcomes)
    \/ CycleHandover
    \/ ExecuteInstructions
    \/ \E k \in DOMAIN futures : PoolStart(k)
    \/ \E k \in DOMAIN futures : ReadInstruction(k)
    \/ \E k \in DOMAIN futures : Collect(k)
    \/ ParallelReturns
    \/ PersistResults
    \/ CycleStats

(*************************************************************************)
(* Streams: api_client.py, and TradingBot.start / stop of main.py         *)
(*************************************************************************)
\* Symbols the orchestrator subscribes depth streams for.
DepthSymbols == Tickers

\* Streams the callers of the client may open in one run, reconnections
\* not counted.
MaxStreams == 3

\* Times the remote side closes a stream in one run.
MaxCloses == 1

NoClient == 0

NoCallback == "None"

\* The callback each caller hands to the client.
CallbackOf(key) ==
    CASE key = "market" -> "_on_ticker_message"
      [] key = "user" -> "on_user_message"
      [] OTHER -> "_on_depth_message"

\* SpotWebsocketStreamClient(on_message=callback, on_close=...) followed by
\* its subscribe call: one more stream on the wire.
Subscribe(key, callback) ==
    Append(streams, [key |-> key, callback |-> callback, state |-> "open"])

IsOpen(id) == id \in DOMAIN streams /\ streams[id].state = "open"

\* client.stop() on each of the clients ids: an open stream is closed and
\* its on_close is called by the stream's thread; a stream that is closed
\* already stays as it is.
StopClients(ids) ==
    /\ streams' = [id \in DOMAIN streams |->
                      IF id \in ids /\ IsOpen(id)
                        THEN [streams[id] EXCEPT !.state = "stopped"]
                        ELSE streams[id]]
    /\ on_close_pending' = on_close_pending \cup {id \in ids : IsOpen(id)}

\* A function without the argument key.
Del(f, key) == [k \in DOMAIN f \ {key} |-> f[k]]

\* ApiClient.__init__ and TradingBot.__init__.
WsInit ==
    /\ running = FALSE
    /\ stop_pc = "idle"
    /\ stop_event = FALSE
    /\ market_websocket_client = NoClient
    /\ market_websocket_running = FALSE
    /\ market_ws_callback = NoCallback
    /\ user_websocket_client = NoClient
    /\ user_websocket_running = FALSE
    /\ user_ws_callback = NoCallback
    /\ depth_websocket_clients = << >>
    /\ depth_websocket_running = << >>
    /\ streams = << >>
    /\ on_close_pending = {}
    /\ ws_sleeping = [key \in {"market", "user"} |-> 0]
    /\ depth_stop_pc = NoSymbol
    /\ closes_left = MaxCloses
    /\ ws_event = << >>

WsQuiet == WsInit

\* Shutdown has been requested: TradingBot.stop has been entered.
ShutdownRequested == stop_pc # "idle"

\* start_market_data_websocket(callback): the variables it assigns.
start_market_data_websocket(callback) ==
    IF market_websocket_running
      THEN UNCHANGED <<market_websocket_client, market_ws_callback,
                       market_websocket_running, streams>>
      ELSE /\ streams' = Subscribe("market", callback)
           /\ market_websocket_client' = Len(streams) + 1
           /\ market_ws_callback' = callback
           /\ market_websocket_running' = TRUE

\* start_user_data_websocket(callback): the variables it assigns.
start_user_data_websocket(callback) ==
    IF user_websocket_running
      THEN UNCHANGED <<user_websocket_client, user_ws_callback,
                       user_websocket_running, streams>>
      ELSE /\ streams' = Subscribe("user", callback)
           /\ user_websocket_client' = Len(streams) + 1
           /\ user_ws_callback' = callback
           /\ user_websocket_running' = TRUE

\* TradingBot.start: running is set and the ticker stream is subscribed.
BotStart ==
    /\ ~running
    /\ stop_pc = "idle"
    /\ market_websocket_client = NoClient
    /\ running' = TRUE
    /\ start_market_data_websocket(CallbackOf("market"))
    /\ ws_event' = << >>
    /\ UNCHANGED <<nonWsVars, stop_pc, stop_event, user_websocket_client,
                   user_websocket_running, user_ws_callback,
                   depth_websocket_clients, depth_websocket_running,
                   on_close_pending, ws_sleeping, depth_stop_pc, closes_left>>

\* A caller subscribes the user-data stream; no caller subscribes anything
\* once the shutdown has been requested.
StartUserData ==
    /\ stop_pc = "idle"
    /\ user_websocket_running \/ Len(streams) < MaxStreams
    /\ start_user_data_websocket(CallbackOf("user"))
    /\ ws_event' = << >>
    /\ UNCHANGED <<nonWsVars, running, stop_pc, stop_event,
                   market_websocket_client, market_websocket_running,
                   market_ws_callback, depth_websocket_clients,
                   depth_websocket_running, on_close_pending, ws_sleeping,
                   depth_stop_pc, closes_left>>

\* A start that opens a stream for a symbol although it has one.
HasDepthSubscription_Never(symbol) == FALSE

\* symbol in self.depth_websocket_clients
HasDepthSubscription(symbol) == symbol \in DOMAIN depth_websocket_clients

\* start_depth_websocket(symbol, callback), called by run_cycle, which the
\* messages of the ticker stream set off.
StartDepth(symbol) ==
    /\ stop_pc = "idle"
    /\ HasDepthSubscription(symbol) \/ Len(streams) < MaxStreams
    /\ market_websocket_client # NoClient
    /\ depth_stop_pc = NoSymbol
    /\ IF HasDepthSubscription(symbol)
         THEN /\ ws_event' = <<"start_depth", symbol, "exists">>
              /\ UNCHANGED <<streams, depth_websocket_clients,
                             depth_websocket_running>>
         ELSE /\ streams' = Subscribe(symbol, CallbackOf(symbol))
              /\ depth_websocket_clients' =
                    [k \in DOMAIN depth_websocket_clients \cup {symbol} |->
                        IF k = symbol THEN Len(streams) + 1
                                      ELSE depth_websocket_clients[k]]
              /\ depth_websocket_running' =
                    [k \in DOMAIN depth_websocket_running \cup {symbol} |->
                        IF k = symbol THEN TRUE
                                      ELSE depth_websocket_running[k]]
              /\ ws_event' = <<"start_depth", symbol, "created">>
    /\ UNCHANGED <<nonWsVars, running, stop_pc, stop_event,
                   market_websocket_client, market_websocket_running,
                   market_ws_callback, user_websocket_client,
                   user_websocket_running, user_ws_callback,
                   on_close_pending, ws_sleeping, depth_stop_pc, closes_left>>

\* stop_depth_websocket(symbol) up to self.depth_websocket_clients[symbol]
\* .stop(); a symbol without an entry is left alone.
StopDepthCall(symbol) ==
    /\ market_websocket_client # NoClient
    /\ depth_stop_pc = NoSymbol
    /\ IF symbol \in DOMAIN depth_websocket_clients
         THEN /\ StopClients({depth_websocket_clients[symbol]})
              /\ depth_stop_pc' = symbol
              /\ ws_event' = <<"stop_depth_call", symbol>>
         ELSE /\ UNCHANGED <<streams, on_close_pending, depth_stop_pc>>
              /\ ws_event' = <<"stop_depth", symbol, "absent">>
    /\ UNCHANGED <<nonWsVars, running, stop_pc, stop_event,
                   market_websocket_client, market_websocket_running,
                   market_ws_callback, user_websocket_client,
                   user_websocket_running, user_ws_callback,
                   depth_websocket_clients, depth_websocket_running,
                   ws_sleeping, closes_left>>

\* stop_depth_websocket(symbol) from `del self.depth_websocket_clients[symbol]`
\* on; the del raises KeyError when the entry has gone meanwhile.
StopDepthDel ==
    /\ depth_stop_pc # NoSymbol
    /\ IF depth_stop_pc \in DOMAIN depth_websocket_clients
         THEN /\ depth_websocket_clients' =
                    Del(depth_websocket_clients, depth_stop_pc)
              /\ depth_websocket_running' =
                    Del(depth_websocket_running, depth_stop_pc)
              /\ ws_event' = <<"stop_depth", depth_stop_pc, "returned">>
         ELSE /\ UNCHANGED <<depth_websocket_clients, depth_websocket_running>>
              /\ ws_event' = <<"stop_depth", depth_stop_pc, "KeyError">>
    /\ depth_stop_pc' = NoSymbol
    /\ UNCHANGED <<nonWsVars, running, stop_pc, stop_event,
                   market_websocket_client, market_websocket_running,
                   market_ws_callback, user_websocket_client,
                   user_websocket_running, user_ws_callback, streams,
                   on_close_pending, ws_sleeping, closes_left>>

\* The remote side closes an open stream; the stream's thread will call
\* its on_close.
RemoteClose(id) ==
    /\ closes_left > 0
    /\ IsOpen(id)
    /\ closes_left' = closes_left - 1
    /\ streams' = [streams EXCEPT ![id].state = "remote_closed"]
    /\ on_close_pending' = on_close_pending \cup {id}
    /\ ws_event' = << >>
    /\ UNCHANGED <<nonWsVars, running, stop_pc, stop_event,
                   market_websocket_client, market_websocket_running,
                   market_ws_callback, user_websocket_client,
                   user_websocket_running, user_ws_callback,
                   depth_websocket_clients, depth_websocket_running,
                   ws_sleeping, depth_stop_pc>>

\* _handle_market_ws_close up to time.sleep(5).
HandleMarketWsClose(id) ==
    /\ id \in on_close_pending
    /\ streams[id].key = "market"
    /\ on_close_pending' = on_close_pending \ {id}
    /\ market_websocket_running' = FALSE
    /\ ws_sleeping' = IF stop_event
                       THEN ws_sleeping
                       ELSE [ws_sleeping EXCEPT !["market"] = @ + 1]
    /\ ws_event' = << >>
    /\ UNCHANGED <<nonWsVars, running, stop_pc, stop_event,
                   market_websocket_client, market_ws_callback,
                   user_websocket_client, user_websocket_running,
                   user_ws_callback, depth_websocket_clients,
                   depth_websocket_running, streams, depth_stop_pc,
                   closes_left>>

\* _handle_market_ws_close after time.sleep(5).
MarketWsReconnect ==
    /\ ws_sleeping["market"] > 0
    /\ ws_sleeping' = [ws_sleeping EXCEPT !["market"] = @ - 1]
    /\ IF market_ws_callback # NoCallback
         THEN start_market_data_websocket(market_ws_callback)
         ELSE UNCHANGED <<market_websocket_client, market_ws_callback,
                          market_websocket_running, streams>>
    /\ ws_event' = << >>
    /\ UNCHANGED <<nonWsVars, running, stop_pc, stop_event,
                   user_websocket_client, user_websocket_running,
                   user_ws_callback, depth_websocket_clients,
                   depth_websocket_running, on_close_pending, depth_stop_pc,
                   closes_left>>

\* _handle_user_ws_close up to time.sleep(5).
HandleUserWsClose(id) ==
    /\ id \in on_close_pending
    /\ streams[id].key = "user"
    /\ on_close_pending' = on_close_pending \ {id}
    /\ user_websocket_running' = FALSE
    /\ ws_sleeping' = [ws_sleeping EXCEPT !["user"] = @ + 1]
    /\ ws_event' = << >>
    /\ UNCHANGED <<nonWsVars, running, stop_pc, stop_event,
                   market_websocket_client, market_websocket_running,
                   market_ws_callback, user_websocket_client,
                   user_ws_callback, depth_websocket_clients,
                   depth_websocket_running, streams, depth_stop_pc,
                   closes_left>>

\* _handle_user_ws_close after time.sleep(5).
UserWsReconnect ==
    /\ ws_sleeping["user"] > 0
    /\ ws_sleeping' = [ws_sleeping EXCEPT !["user"] = @ - 1]
    /\ IF user_ws_callback # NoCallback
         THEN start_user_data_websocket(user_ws_callback)
         ELSE UNCHANGED <<user_websocket_client, user_ws_callback,
                          user_websocket_running, streams>>
    /\ ws_event' = << >>
    /\ UNCHANGED <<nonWsVars, running, stop_pc, stop_event,
                   market_websocket_client, market_websocket_running,
                   market_ws_callback, depth_websocket_clients,
                   depth_websocket_running, on_close_pending, depth_stop_pc,
                   closes_left>>

\* on_close_callback of start_depth_websocket, a closure over the symbol.
DepthOnClose(id) ==
    /\ id \in on_close_pending
    /\ streams[id].key \in DepthSymbols
    /\ on_close_pending' = on_close_pending \ {id}
    /\ LET symbol == streams[id].key
       IN  /\ depth_websocket_running' =
                 IF symbol \in DOMAIN depth_websocket_running
                   THEN [depth_websocket_running EXCEPT ![symbol] = FALSE]
                   ELSE depth_websocket_running
           /\ depth_websocket_clients' =
                 IF symbol \in DOMAIN depth_websocket_clients
                   THEN Del(depth_websocket_clients, symbol)
                   ELSE depth_websocket_clients
           /\ ws_event' = << >>
    /\ UNCHANGED <<nonWsVars, running, stop_pc, stop_event,
                   market_websocket_client, market_websocket_running,
                   market_ws_callback, user_websocket_client,
                   user_websocket_running, user_ws_callback, streams,
                   ws_sleeping, depth_stop_pc, closes_left>>

\* TradingBot.stop up to the return of api_client.stop_websockets(): the
\* ticker and the user-data client are stopped when there is one, every
\* depth client is stopped and both depth dictionaries are cleared.
StopWebsockets ==
    /\ running
    /\ stop_pc = "idle"
    /\ running' = FALSE
    /\ stop_pc' = "stopping"
    /\ StopClients({market_websocket_client, user_websocket_client}
                   \cup {depth_websocket_clients[k] :
                            k \in DOMAIN depth_websocket_clients})
    /\ market_websocket_running' =
          IF market_websocket_client # NoClient THEN FALSE
                                                ELSE market_websocket_running
    /\ user_websocket_running' =
          IF user_websocket_client # NoClient THEN FALSE
                                              ELSE user_websocket_running
    /\ depth_websocket_clients' = << >>
    /\ depth_websocket_running' = << >>
    /\ ws_event' = << >>
    /\ UNCHANGED <<nonWsVars, stop_event, market_websocket_client,
                   market_ws_callback, user_websocket_client,
                   user_ws_callback, ws_sleeping, depth_stop_pc, closes_left>>

\* TradingBot.stop: self._stop_event.set().
SetStopEvent ==
    /\ stop_pc = "stopping"
    /\ stop_event' = TRUE
    /\ stop_pc' = "stopped"
    /\ ws_event' = << >>
    /\ UNCHANGED <<nonWsVars, running, market_websocket_client,
                   market_websocket_running, market_ws_callback,
                   user_websocket_client, user_websocket_running,
                   user_ws_callback, depth_websocket_clients,
                   depth_websocket_running, streams, on_close_pending,
                   ws_sleeping, depth_stop_pc, closes_left>>

\* Every stream the client may ever have created.
StreamIds == 1..(MaxStreams + MaxCloses + 2)

CloseHandlers ==
    \/ \E id \in StreamIds : HandleMarketWsClose(id)
    \/ MarketWsReconnect
    \/ \E id \in StreamIds : HandleUserWsClose(id)
    \/ UserWsReconnect
    \/ \E id \in StreamIds : DepthOnClose(id)

WsNext ==
    \/ BotStart
    \/ StartUserData
    \/ \E symbol \in DepthSymbols : StartDepth(symbol)
    \/ \E symbol \in DepthSymbols : StopDepthCall(symbol)
    \/ StopDepthDel
    \/ \E id \in StreamIds : RemoteClose(id)
    \/ \E id \in StreamIds : HandleMarketWsClose(id)
    \/ MarketWsReconnect
    \/ \E id \in StreamIds : HandleUserWsClose(id)
    \/ UserWsReconnect
    \/ \E id \in StreamIds : DepthOnClose(id)
    \/ StopWebsockets
    \/ SetStopEvent

(*************************************************************************)
(* Trading graph: data_analyzer.py, rebuilt by TradingBot.start           *)
(*************************************************************************)
\* The symbols the exchange may list, with base and quote asset.
ListedSymbols ==
    <<[symbol |-> "BTCUSDT", baseAsset |-> "BTC", quoteAsset |-> "USDT"],
      [symbol |-> "ETHUSDT", baseAsset |-> "ETH", quoteAsset |-> "USDT"],
      [symbol |-> "ETHBTC", baseAsset |-> "ETH", quoteAsset |-> "BTC"]>>

\* How a snapshot shows a symbol: trading, halted, not at all, or trading
\* in an entry that lacks baseAsset and quoteAsset.
SymbolInfoKinds == {"TRADING", "BREAK", "absent", "no_assets"}

symbol_info(n, kind) ==
    IF kind = "no_assets"
      THEN [symbol |-> ListedSymbols[n].symbol, status |-> "TRADING"]
      ELSE [symbol |-> ListedSymbols[n].symbol, status |-> kind,
            baseAsset |-> ListedSymbols[n].baseAsset,
            quoteAsset |-> ListedSymbols[n].quoteAsset]

RECURSIVE SymbolsList(_, _)
\* exchange_info["symbols"] of the snapshot that shows symbol n as kinds[n].
SymbolsList(kinds, n) ==
    IF n > Len(kinds) THEN << >>
    ELSE IF kinds[n] = "absent" THEN SymbolsList(kinds, n + 1)
    ELSE <<symbol_info(n, kinds[n])>> \o SymbolsList(kinds, n + 1)

\* The well-formed responses of get_exchange_info.
Snapshots ==
    {[symbols |-> SymbolsList(kinds, 1)] :
        kinds \in {k \in [1..Len(ListedSymbols) -> SymbolInfoKinds] :
                      \A n \in 1..2 : k[n] # "no_assets"}}

\* A response that is no dict or has no "symbols".
Malformed == [msg |-> "malformed"]

\* A get_exchange_info that raises.
Raises == [exception |-> "raises"]

\* max_retries of build_trading_graph.
build_max_retries == 3

\* Builds TradingBot.start makes in one run: the first one and the
\* periodic ones.
MaxBuilds == 2

\* Nothing read yet.
NoObservation == <<"none">>

\* The three structures a reader of the graph looks at.
GraphState == <<trading_graph, all_assets, symbol_to_assets_map>>

\* DataAnalyzer.__init__ and TradingBot.__init__.
GraphInit ==
    /\ trading_graph = << >>
    /\ all_assets = {}
    /\ symbol_to_assets_map = << >>
    /\ exchange_info = [msg |-> "none"]
    /\ build_pc = "idle"
    /\ build_i = 0
    /\ build_attempt = 0
    /\ last_build = "none"
    /\ builds = 0
    /\ start_pc = "constructed"
    /\ complete_graph = <<<< >>, {}, << >>>>
    /\ observed = NoObservation

GraphQuiet == GraphInit

\* A build that takes the symbols of any status.
IsTradable_AnyStatus(info) ==
    HasKey(info, "baseAsset") /\ HasKey(info, "quoteAsset")

\* symbol_info.get("status") == "TRADING" and "baseAsset" in symbol_info and
\* "quoteAsset" in symbol_info
IsTradable(info) ==
    /\ info.status = "TRADING"
    /\ HasKey(info, "baseAsset")
    /\ HasKey(info, "quoteAsset")

\* d[key] = value in a dictionary d.
Put(d, key, value) ==
    [k \in DOMAIN d \cup {key} |-> IF k = key THEN value ELSE d[k]]

\* The adjacency after base and quote were appended to each other's lists.
AddEdge(graph, base, quote) ==
    LET g1 == IF base \in DOMAIN graph THEN graph ELSE Put(graph, base, << >>)
        g2 == IF quote \in DOMAIN g1 THEN g1 ELSE Put(g1, quote, << >>)
        g3 == Put(g2, base, Append(g2[base], quote))
    IN  Put(g3, quote, Append(g3[quote], base))

\* One round of the loop over exchange_info["symbols"], on the three
\* structures.
AddSymbol(state, info) ==
    IF IsTradable(info)
      THEN <<AddEdge(state[1], info.baseAsset, info.quoteAsset),
             state[2] \cup {info.baseAsset, info.quoteAsset},
             Put(state[3], info.symbol,
                 [base |-> info.baseAsset, quote |-> info.quoteAsset])>>
      ELSE state

RECURSIVE GraphFrom(_, _, _)
\* The structures after the rounds n.. of the loop over symbols.
GraphFrom(state, symbols, n) ==
    IF n > Len(symbols) THEN state
    ELSE GraphFrom(AddSymbol(state, symbols[n]), symbols, n + 1)

\* The graph a whole build makes of a list of symbols.
GraphOf(symbols) == GraphFrom(<<<< >>, {}, << >>>>, symbols, 1)

\* A build that asks a fourth time.
AfterMalformed_FourthFetch(attempt) ==
    IF attempt < build_max_retries + 1 THEN "fetch" ELSE "gave_up"

\* for attempt in range(max_retries): ... else: return
AfterMalformed(attempt) ==
    IF attempt < build_max_retries THEN "fetch" ELSE "gave_up"

\* TradingBot.start goes on after build_trading_graph returned: it starts
\* the ticker stream and enters its loop.
StartGoesOn == IF start_pc = "building" THEN "loop" ELSE start_pc

\* TradingBot.start: self.data_analyzer.build_trading_graph().
StartBuild ==
    /\ start_pc = "constructed"
    /\ start_pc' = "building"
    /\ build_pc' = "fetch"
    /\ build_attempt' = 0
    /\ builds' = builds + 1
    /\ UNCHANGED <<nonGraphVars, trading_graph, all_assets,
                   symbol_to_assets_map, exchange_info, build_i, last_build,
                   complete_graph, observed>>

\* The loop of TradingBot.start: the periodic rebuild.
PeriodicRebuild ==
    /\ start_pc = "loop"
    /\ build_pc = "idle"
    /\ builds < MaxBuilds
    /\ build_pc' = "fetch"
    /\ build_attempt' = 0
    /\ builds' = builds + 1
    /\ UNCHANGED <<nonGraphVars, trading_graph, all_assets,
                   symbol_to_assets_map, exchange_info, build_i, last_build,
                   start_pc, complete_graph, observed>>

\* One round of the retry loop: the fetch and the test of the response.
BuildFetch(response) ==
    /\ build_pc = "fetch"
    /\ build_attempt' = build_attempt + 1
    /\ IF response = Raises
         THEN /\ build_pc' = "idle"
              /\ last_build' = "raised"
              /\ start_pc' = "raised"
              /\ UNCHANGED exchange_info
         ELSE /\ exchange_info' = response
              /\ IF HasKey(response, "symbols")
                   THEN /\ build_pc' = "clear"
                        /\ UNCHANGED <<last_build, start_pc>>
                   ELSE IF AfterMalformed(build_attempt + 1) = "fetch"
                          THEN UNCHANGED <<build_pc, last_build, start_pc>>
                          ELSE /\ build_pc' = "idle"
                               /\ last_build' = "failed"
                               /\ start_pc' = StartGoesOn
    /\ UNCHANGED <<nonGraphVars, trading_graph, all_assets,
                   symbol_to_assets_map, build_i, builds, complete_graph,
                   observed>>

\* The three clear() calls.
BuildClear ==
    /\ build_pc = "clear"
    /\ trading_graph' = << >>
    /\ all_assets' = {}
    /\ symbol_to_assets_map' = << >>
    /\ build_pc' = "fill"
    /\ build_i' = 1
    /\ UNCHANGED <<nonGraphVars, exchange_info, build_attempt, last_build,
                   builds, start_pc, complete_graph, observed>>

\* One round of the loop over exchange_info["symbols"].
BuildAdd ==
    /\ build_pc = "fill"
    /\ build_i <= Len(exchange_info.symbols)
    /\ LET state == AddSymbol(GraphState, exchange_info.symbols[build_i])
       IN  /\ trading_graph' = state[1]
           /\ all_assets' = state[2]
           /\ symbol_to_assets_map' = state[3]
    /\ build_i' = build_i + 1
    /\ UNCHANGED <<nonGraphVars, exchange_info, build_pc, build_attempt,
                   last_build, builds, start_pc, complete_graph, observed>>

\* The loop is over and build_trading_graph returns.
BuildReturn ==
    /\ build_pc = "fill"
    /\ build_i > Len(exchange_info.symbols)
    /\ build_pc' = "idle"
    /\ last_build' = "built"
    /\ start_pc' = StartGoesOn
    /\ complete_graph' = GraphState
    /\ UNCHANGED <<nonGraphVars, trading_graph, all_assets,
                   symbol_to_assets_map, exchange_info, build_i,
                   build_attempt, builds, observed>>

\* find_profitable_paths, run on the thread of the ticker stream once
\* TradingBot.start has started it, reads the graph.
FindPathsRead ==
    /\ start_pc = "loop"
    /\ observed # GraphState
    /\ observed' = GraphState
    /\ UNCHANGED <<nonGraphVars, trading_graph, all_assets,
                   symbol_to_assets_map, exchange_info, build_pc, build_i,
                   build_attempt, last_build, builds, start_pc,
                   complete_graph>>

GraphNext ==
    \/ StartBuild
    \/ PeriodicRebuild
    \/ \E response \in Snapshots \cup {Malformed, Raises} :
          BuildFetch(response)
    \/ BuildClear
    \/ BuildAdd
    \/ BuildReturn
    \/ FindPathsRead

(*************************************************************************)
(* Path search: DataAnalyzer.find_profitable_paths                        *)
(*************************************************************************)
\* The tickers of a cycle: every listed symbol is quoted.
PathTickers == {ListedSymbols[n].symbol : n \in DOMAIN ListedSymbols}

\* The graph the search runs on: every listed symbol trades.
PathGraph ==
    GraphOf([n \in DOMAIN ListedSymbols |-> symbol_info(n, "TRADING")])

\* The hops of the graph.
Hops ==
    {h \in Assets \X Assets :
        /\ h[1] \in DOMAIN PathGraph[1]
        /\ \E n \in DOMAIN PathGraph[1][h[1]] : PathGraph[1][h[1]][n] = h[2]}

\* In percent, what bid * (1 - commission) resp. (1 / ask) * (1 - commission)
\* make of an amount on one hop; 0 stands for a price of 0.
Rates == {0, 90, 110, 120}

\* Values of min_profit_threshold in the strategy parameters, in percent.
Thresholds == {-5, 10}

MaxDepths == {1, 2}

StartAmounts == {5, 100}

min_notional == 10

StartAsset == "USDT"

\* calculate_trade: the amount of asset_to one gets, 0 without a symbol.
calculate_trade(rates, asset_from, asset_to, amount_from) ==
    IF get_symbol_and_side(PathTickers, asset_from, asset_to)[1] = NoSymbol
      THEN 0
      ELSE (amount_from * rates[<<asset_from, asset_to>>]) \div 100

RECURSIVE PathAmount(_, _, _, _)
\* The loop of calculate_path_profit from hop i on: the final amount, 0
\* when a hop yields nothing.
PathAmount(rates, path, i, current_amount) ==
    IF i > Len(path) - 1 THEN current_amount
    ELSE LET new_amount ==
                 calculate_trade(rates, path[i], path[i + 1], current_amount)
         IN  IF new_amount <= 0 THEN 0
             ELSE PathAmount(rates, path, i + 1, new_amount)

calculate_path_profit(rates, path, amount) ==
    LET final == PathAmount(rates, path, 1, amount)
    IN  IF Len(path) < 2
          THEN [profit |-> 0, profit_percent |-> 0, final_amount |-> amount]
        ELSE IF final <= 0
          THEN [profit |-> 0, profit_percent |-> 0, final_amount |-> 0]
        ELSE [profit |-> final - amount,
              profit_percent |-> ((final - amount) * 100) \div amount,
              final_amount |-> final,
              path |-> path,
              initial_investment |-> amount,
              returns_to_start |-> path[1] = path[Len(path)]]

\* A search that also takes the paths that just reach the threshold.
IsProfitable_AtThreshold(profit_pct, min_profit_threshold) ==
    profit_pct >= min_profit_threshold

\* if profit_pct > min_profit_threshold
IsProfitable(profit_pct, min_profit_threshold) ==
    profit_pct > min_profit_threshold

max_paths == 100000

\* self.trading_graph.get(current_asset, [])
NeighboursList(asset) ==
    IF asset \in DOMAIN PathGraph[1] THEN PathGraph[1][asset] ELSE << >>

RECURSIVE Expand(_, _, _, _, _)
\* The loop over the neighbours of one queue item, from neighbour n on:
\* the profit dictionaries appended to profitable_paths and the items
\* appended to the queue.
Expand(rates, params, amount, item, out) ==
    IF out.n > Len(NeighboursList(item.asset)) THEN out
    ELSE
      LET neighbor   == NeighboursList(item.asset)[out.n]
          symbol     == get_symbol_and_side(PathTickers, item.asset,
                                            neighbor)[1]
          new_amount == calculate_trade(rates, item.asset, neighbor,
                                        item.amount)
          new_path   == Append(item.path, neighbor)
          profit     == calculate_path_profit(rates, new_path, amount)
          found      == IF IsProfitable(profit.profit_percent,
                                        params.min_profit_threshold)
                          THEN Append(out.found, profit)
                          ELSE out.found
          queue      == IF item.depth < params.max_path_length - 1
                          THEN Append(out.queue,
                                      [asset |-> neighbor, path |-> new_path,
                                       amount |-> new_amount,
                                       depth |-> item.depth + 1])
                          ELSE out.queue
      IN  IF neighbor = item.asset \/ symbol = NoSymbol \/ new_amount <= 0
            THEN Expand(rates, params, amount, item,
                        [out EXCEPT !.n = out.n + 1])
            ELSE Expand(rates, params, amount, item,
                        [n |-> out.n + 1, found |-> found, queue |-> queue])

RECURSIVE Search(_, _, _, _, _, _)
\* The while loop over the queue: profitable_paths when it ends.
Search(rates, params, amount, queue, visited, profitable_paths) ==
    IF queue = << >> \/ Len(profitable_paths) >= max_paths
      THEN profitable_paths
    ELSE
      LET item  == Head(queue)
          state == <<item.asset, item.depth>>
      IN  IF item.depth >= params.max_path_length \/ state \in visited
            THEN Search(rates, params, amount, Tail(queue), visited,
                        profitable_paths)
            ELSE
              LET out == Expand(rates, params, amount, item,
                                [n |-> 1, found |-> profitable_paths,
                                 queue |-> Tail(queue)])
              IN  Search(rates, params, amount, out.queue,
                         visited \cup {state}, out.found)

RECURSIVE InsertDescending(_, _)
\* x put into a list in descending order of profit_percent, behind every
\* element that is not smaller.
InsertDescending(sorted, x) ==
    IF sorted = << >> THEN <<x>>
    ELSE IF Head(sorted).profit_percent >= x.profit_percent
      THEN <<Head(sorted)>> \o InsertDescending(Tail(sorted), x)
      ELSE <<x>> \o sorted

RECURSIVE SortDescending(_, _, _)
\* list.sort(key=lambda x: x["profit_percent"], reverse=True): a stable sort.
SortDescending(list, n, sorted) ==
    IF n > Len(list) THEN sorted
    ELSE SortDescending(list, n + 1, InsertDescending(sorted, list[n]))

\* profitable_paths of find_profitable_paths right before the sort; empty
\* when one of the early returns is taken.
ProfitablePathsFound(rates, params, amount) ==
    IF PathTickers = {} \/ amount <= 0 THEN << >>
    ELSE IF StartAsset \notin PathGraph[2] THEN << >>
    ELSE IF amount < min_notional THEN << >>
    ELSE Search(rates, params, amount,
                <<[asset |-> StartAsset, path |-> <<StartAsset>>,
                   amount |-> amount, depth |-> 0]>>, {}, << >>)

PathInit ==
    /\ path_rates \in [Hops -> Rates]
    /\ strategy_params \in [max_path_length : MaxDepths,
                            min_profit_threshold : Thresholds]
    /\ start_amount \in StartAmounts
    /\ path_pc = "called"
    /\ discovered = << >>
    /\ returned_paths = << >>

PathQuiet ==
    /\ path_rates = [h \in Hops |-> 0]
    /\ strategy_params = [max_path_length |-> 1, min_profit_threshold |-> 10]
    /\ start_amount = 5
    /\ path_pc = "called"
    /\ discovered = << >>
    /\ returned_paths = << >>

\* find_profitable_paths(tickers, order_books, start_asset, start_amount,
\* strategy_params).
FindProfitablePaths ==
    /\ path_pc = "called"
    /\ path_pc' = "returned"
    /\ discovered' = ProfitablePathsFound(path_rates, strategy_params,
                                          start_amount)
    /\ returned_paths' = SortDescending(discovered', 1, << >>)
    /\ UNCHANGED <<nonPathVars, path_rates, strategy_params, start_amount>>

PathNext == FindProfitablePaths

(*************************************************************************)
(* Path analysis: risk_manager.py _analyze_path_risk (rates in 0.001)     *)
(*************************************************************************)
NoAnalysis == [path_info |-> [path |-> << >>]]

\* The investment the analysed path is sized for: 10.00.
AnalysisInvestment == {1000}

AnalysisInit ==
    /\ analysis_path \in AnalysisPaths
    /\ analysis_tickers \in TickerMaps
    /\ analysis_pc = "called"
    /\ path_analysis = NoAnalysis

AnalysisQuiet ==
    /\ analysis_path = << >>
    /\ analysis_tickers = << >>
    /\ analysis_pc = "idle"
    /\ path_analysis = NoAnalysis

AnalyzePathRisk(investment_size, outcome) ==
    /\ analysis_pc = "called"
    /\ path_analysis' = analyze_path_risk(PathInfo(analysis_path),
                            investment_size, analysis_tickers, outcome)
    /\ analysis_pc' = "returned"
    /\ UNCHANGED <<analysis_path, analysis_tickers, nonAnalysisVars>>

AnalysisNext ==
    \E investment_size \in AnalysisInvestment,
       outcome \in SimulationOutcomes :
          AnalyzePathRisk(investment_size, outcome)

(*************************************************************************)
(* LOT_SIZE adjustment: risk_manager.py adjust_quantity_to_filters        *)
(*************************************************************************)
\* Largest quantity of the small filters.
MaxLot == 7

\* The worked filter: minQty 0.001, stepSize 0.0001; its maxQty stands for
\* any maxQty above the quantity asked for.
WorkedFilter ==
    [filterType |-> "LOT_SIZE", minQty |-> 100000, maxQty |-> 2000000000,
     stepSize |-> 10000]

\* The worked quantity, 0.00123456.
WorkedQuantities == {123456}

\* LOT_SIZE filters: 0 <= minQty <= maxQty and a positive stepSize.
LotFilters ==
    {[filterType |-> "LOT_SIZE", minQty |-> lo, maxQty |-> hi,
      stepSize |-> st] :
        lo \in 0..3, hi \in 0..MaxLot, st \in 1..3} \cup {WorkedFilter}

\* The filters of a symbol without a LOT_SIZE filter.
NoLotSize == [filterType |-> "PRICE_FILTER"]

LotQuantities == 0..(MaxLot + 2) \cup WorkedQuantities

\* adjust_quantity_to_filters for a symbol whose filters are known.
AdjustWith(f, quantity) ==
    IF f.filterType # "LOT_SIZE" THEN quantity ELSE LotSizeAdjust(f, quantity)

LotInit ==
    /\ lot_filter \in {f \in LotFilters : f.minQty <= f.maxQty}
                          \cup {NoLotSize}
    /\ lot_quantity \in LotQuantities
    /\ lot_adjusted = << >>

LotQuiet ==
    /\ lot_filter = NoLotSize
    /\ lot_quantity = 0
    /\ lot_adjusted = << >>

\* One call; the second call is given the outcome of the first.
AdjustQuantity ==
    /\ Len(lot_adjusted) < 2
    /\ lot_adjusted' =
          Append(lot_adjusted,
                 AdjustWith(lot_filter,
                            IF lot_adjusted = << >> THEN lot_quantity
                            ELSE Last(lot_adjusted)))
    /\ UNCHANGED <<lot_filter, lot_quantity, nonLotVars>>

LotNext == AdjustQuantity

(*************************************************************************)
(* Allocation: risk_manager.py generate_trade_instructions                *)
(*************************************************************************)
\* Lists of profitable paths of the start asset USDT: the sublists of a path
\* that returns, one that goes on, a single hop and a long path.
AssetPathLists ==
    LET all == <<PathInfo(<<"USDT", "BTC", "USDT">>),
                 PathInfo(<<"USDT", "BTC", "ETH">>),
                 PathInfo(<<"USDT", "BTC">>),
                 PathInfo(Alternating(13))>>
    IN  {SelectSeq2(all, keep) : keep \in [1..4 -> BOOLEAN]}

AllocInit ==
    /\ alloc_balance \in FreeBalances
    /\ alloc_multiplier \in {1, 2}
    /\ alloc_paths \in AssetPathLists
    /\ alloc_tickers \in TickerMaps
    /\ alloc_pc = "called"
    /\ path_analyses = << >>
    /\ path_allocations = << >>

AllocQuiet ==
    /\ alloc_balance = 0
    /\ alloc_multiplier = 1
    /\ alloc_paths = << >>
    /\ alloc_tickers = << >>
    /\ alloc_pc = "idle"
    /\ path_analyses = << >>
    /\ path_allocations = << >>

\* total_capital of generate_trade_instructions: calculate_investment_size
\* with the risk_percentage run_cycle passes, max_portfolio_risk times the
\* volatility multiplier.
AllocCapital ==
    calculate_investment_size(alloc_balance,
                              max_portfolio_risk * alloc_multiplier,
                              max_portfolio_risk * alloc_multiplier)

\* generate_trade_instructions for the paths of one start asset.
GenerateTradeInstructions(outcomes) ==
    /\ alloc_pc = "called"
    /\ IF "get_asset_details" \notin supplied
         THEN /\ alloc_pc' = "raised"
              /\ UNCHANGED <<path_analyses, path_allocations>>
       ELSE IF alloc_paths = << >> \/ AllocCapital <= 0
         THEN /\ alloc_pc' = "returned"
              /\ UNCHANGED <<path_analyses, path_allocations>>
       ELSE LET analyses == AnalysesOf(alloc_paths, AllocCapital,
                                       alloc_tickers, outcomes)
            IN  /\ path_analyses' = analyses
                /\ path_allocations' =
                      optimize_portfolio_allocation_hydra(analyses,
                                                          AllocCapital)
                /\ alloc_pc' = "returned"
    /\ UNCHANGED <<alloc_balance, alloc_multiplier, alloc_paths,
                   alloc_tickers, supplied, nonAllocVars>>

AllocNext ==
    \E outcomes \in [DOMAIN alloc_paths -> SimulationOutcomes] :
        GenerateTradeInstructions(outcomes)

(*************************************************************************)
(* Order timestamps: order_executor.py _execute_live_trade and            *)
(* api_client.py place_order, test_place_order (times in ms)              *)
(*************************************************************************)
\* Latest local time.
MaxClock == 2

\* Order requests sent in one run.
MaxRequests == 2

\* server time - local time the exchange may show at a synchronization.
ClockSkews == {-10, 0, 10}

NoParams == [symbol |-> NoSymbol]

StampInit ==
    /\ local_ms = 0
    /\ order_params = NoParams
    /\ live_pc = "idle"
    /\ requests = << >>

StampQuiet == StampInit

\* _current_timestamp
current_timestamp == local_ms + time_offset_ms

\* place_order and test_place_order put a timestamp into order_params that
\* have none.
WithTimestamp(params) ==
    IF HasKey(params, "timestamp") THEN params
    ELSE [k \in DOMAIN params \cup {"timestamp"} |->
             IF k = "timestamp" THEN current_timestamp ELSE params[k]]

\* What the exchange is sent.
Request(endpoint, params) ==
    [endpoint |-> endpoint, timestamp |-> params.timestamp,
     local_ms |-> local_ms, time_offset_ms |-> time_offset_ms]

\* _sync_server_time, at construction and after every failover.
StampSync(skew) ==
    /\ time_offset_ms' = skew
    /\ UNCHANGED <<stampVars, nonStampVars>>

\* The local clock goes on.
ClockTick ==
    /\ local_ms < MaxClock
    /\ local_ms' = local_ms + 1
    /\ UNCHANGED <<time_offset_ms, order_params, live_pc, requests,
                   nonStampVars>>

\* _execute_live_trade builds the order_params of a hop.
BuildOrderParams(symbol) ==
    /\ live_pc = "idle"
    /\ Len(requests) + 2 <= MaxRequests
    /\ order_params' = [symbol |-> symbol, side |-> "BUY", type |-> "MARKET",
                        timestamp |-> local_ms]
    /\ live_pc' = "test"
    /\ UNCHANGED <<time_offset_ms, local_ms, requests, nonStampVars>>

\* api_client.test_place_order(order_params)
StampedTestOrder(accepted) ==
    /\ live_pc = "test"
    /\ order_params' = WithTimestamp(order_params)
    /\ requests' = Append(requests, Request("test", order_params'))
    /\ live_pc' = IF accepted THEN "place" ELSE "idle"
    /\ UNCHANGED <<time_offset_ms, local_ms, nonStampVars>>

\* api_client.place_order(order_params) with the same order_params.
StampedPlaceOrder ==
    /\ live_pc = "place"
    /\ order_params' = WithTimestamp(order_params)
    /\ requests' = Append(requests, Request("order", order_params'))
    /\ live_pc' = "idle"
    /\ UNCHANGED <<time_offset_ms, local_ms, nonStampVars>>

StampNext ==
    \/ \E skew \in ClockSkews : StampSync(skew)
    \/ ClockTick
    \/ \E symbol \in Tickers : BuildOrderParams(symbol)
    \/ \E accepted \in BOOLEAN : StampedTestOrder(accepted)
    \/ StampedPlaceOrder

(*************************************************************************)
(* Ticker handler: main.py _on_ticker_message                             *)
(*************************************************************************)
\* Messages the ticker stream delivers in one run.
MaxMessages == 21

\* self._analysis_counter % 10 == 0
AnalysisEvery == 10

\* What a message of the ticker stream may be: a string that is no JSON, the
\* answer to the subscription, tickers with symbol, bid and ask (a list or a
\* single one), a list without any such ticker, anything else.
MessageKinds == {"unparsable", "result", "tickers", "empty_list", "other"}

NoCounter == -1

IdleThread == [pc |-> "idle", counter |-> 0, after_stop |-> FALSE]

TickerInit ==
    /\ ticker_threads = [id \in StreamIds |-> IdleThread]
    /\ tickers_known = FALSE
    /\ analysis_counter = NoCounter
    /\ received = 0
    /\ recognized = 0
    /\ cycles_started = 0
    /\ cycle_errors = 0

TickerQuiet == TickerInit

\* The message gets as far as `if self.tickers:` and finds tickers there.
ReachesCounter(kind) ==
    \/ kind = "tickers"
    \/ kind = "empty_list" /\ tickers_known

\* The thread of an open ticker stream calls _on_ticker_message(message):
\* the message is parsed and its tickers are stored. TradingBot.stop has
\* returned or not.
TickerMessage(id, kind) ==
    /\ IsOpen(id)
    /\ streams[id].callback = CallbackOf("market")
    /\ ticker_threads[id].pc = "idle"
    /\ received < MaxMessages
    /\ received' = received + 1
    /\ tickers_known' = (tickers_known \/ kind = "tickers")
    /\ recognized' = IF ReachesCounter(kind) THEN recognized + 1
                     ELSE recognized
    /\ ticker_threads' =
          [ticker_threads EXCEPT ![id] =
              IF ReachesCounter(kind)
                THEN [pc |-> "load", counter |-> 0,
                      after_stop |-> stop_pc = "stopped"]
                ELSE IdleThread]
    /\ UNCHANGED <<analysis_counter, cycles_started, cycle_errors,
                   nonTickerVars>>

\* The counter is set to 0 when it is missing, and read for `+= 1`.
CounterLoad(id) ==
    /\ ticker_threads[id].pc = "load"
    /\ LET value == IF analysis_counter = NoCounter THEN 0
                    ELSE analysis_counter
       IN  /\ analysis_counter' = value
           /\ ticker_threads' =
                 [ticker_threads EXCEPT ![id].pc = "store",
                                        ![id].counter = value]
    /\ UNCHANGED <<tickers_known, received, recognized, cycles_started,
                   cycle_errors, nonTickerVars>>

\* `+= 1` writes the counter.
CounterStore(id) ==
    /\ ticker_threads[id].pc = "store"
    /\ analysis_counter' = ticker_threads[id].counter + 1
    /\ ticker_threads' = [ticker_threads EXCEPT ![id].pc = "test"]
    /\ UNCHANGED <<tickers_known, received, recognized, cycles_started,
                   cycle_errors, nonTickerVars>>

\* self._analysis_counter % 10 == 0
CycleIsDue_Every9(counter) == counter % (AnalysisEvery - 1) = 0

CycleIsDue(counter) == counter % AnalysisEvery = 0

\* The counter is tested and, when a cycle is due, run_cycle is called.
CounterTest(id) ==
    /\ ticker_threads[id].pc = "test"
    /\ IF CycleIsDue(analysis_counter)
         THEN /\ ticker_threads' = [ticker_threads EXCEPT ![id].pc = "cycle"]
              /\ cycles_started' = cycles_started + 1
         ELSE /\ ticker_threads' = [ticker_threads EXCEPT ![id] = IdleThread]
              /\ UNCHANGED cycles_started
    /\ UNCHANGED <<tickers_known, analysis_counter, received, recognized,
                   cycle_errors, nonTickerVars>>

\* Where the thread stands after run_cycle raised: `except Exception` of the
\* handler logs the error and the handler returns.
AfterCycleError_Propagates == "crashed"

AfterCycleError == "idle"

\* run_cycle returns or raises.
CycleReturns(id, raised) ==
    /\ ticker_threads[id].pc = "cycle"
    /\ ticker_threads' =
          [ticker_threads EXCEPT ![id] =
              IF raised THEN [IdleThread EXCEPT !.pc = AfterCycleError]
              ELSE IdleThread]
    /\ cycle_errors' = IF raised THEN cycle_errors + 1 ELSE cycle_errors
    /\ UNCHANGED <<tickers_known, analysis_counter, received, recognized,
                   cycles_started, nonTickerVars>>

\* on_close of a ticker stream is called by the thread of the stream, which
\* is not inside the message callback then.
TickerStreamClosed(id) ==
    /\ ticker_threads[id].pc = "idle"
    /\ HandleMarketWsClose(id)

TickerNext ==
    \/ \E id \in StreamIds, kind \in MessageKinds : TickerMessage(id, kind)
    \/ \E id \in StreamIds : CounterLoad(id)
    \/ \E id \in StreamIds : CounterStore(id)
    \/ \E id \in StreamIds : CounterTest(id)
    \/ \E id \in StreamIds, raised \in BOOLEAN : CycleReturns(id, raised)

\* The bot: the ticker stream and its handler, started and stopped.
BotNext ==
    \/ BotStart
    \/ \E id \in StreamIds : RemoteClose(id)
    \/ \E id \in StreamIds : TickerStreamClosed(id)
    \/ MarketWsReconnect
    \/ StopWebsockets
    \/ SetStopEvent
    \/ TickerNext

(*************************************************************************)
(* Path search, one iteration of its loop at a time                       *)
(*************************************************************************)
\* Rates of the stepwise search, in percent: no trade, and a gain of 10 %.
SearchRates == {0, 110}

SearchDepths == {0, 1, 2, 3}

\* Values of DataAnalyzer.max_paths: the cap of the program, and a cap this
\* graph can reach.
PathCaps == {1, max_paths}

SearchInit ==
    /\ path_cap = max_paths
    /\ search_pc = "idle"
    /\ search_queue = << >>
    /\ search_visited = {}
    /\ search_found = << >>
    /\ search_expanded = << >>
    /\ search_returned = << >>

SearchQuiet == SearchInit

\* find_profitable_paths is called on an analyzer whose cap is cap, with the
\* tickers, the strategy parameters and the start amount of the cycle.
SearchCall(cap, rates, params, amount) ==
    /\ search_pc = "idle"
    /\ search_pc' = "called"
    /\ path_cap' = cap
    /\ path_rates' = rates
    /\ strategy_params' = params
    /\ start_amount' = amount
    /\ UNCHANGED <<search_queue, search_visited, search_found,
                   search_expanded, search_returned, path_pc, discovered,
                   returned_paths, apiVars, fillVars, execVars, cycleVars,
                   wsVars, graphVars, analysisVars, lotVars, allocVars,
                   stampVars, tickerVars, resolveVars, breakerVars,
                   positionVars, gateVars>>

\* The early returns of find_profitable_paths, and the queue seeded with the
\* start asset.
SearchStart ==
    /\ search_pc = "called"
    /\ IF \/ PathTickers = {}
          \/ start_amount <= 0
          \/ StartAsset \notin PathGraph[2]
          \/ start_amount < min_notional
         THEN search_pc' = "returned" /\ UNCHANGED search_queue
         ELSE /\ search_pc' = "loop"
              /\ search_queue' = <<[asset |-> StartAsset,
                                    path |-> <<StartAsset>>,
                                    amount |-> start_amount, depth |-> 0]>>
    /\ UNCHANGED <<path_cap, search_visited, search_found, search_expanded,
                   search_returned, nonSearchVars>>

\* while queue and len(profitable_paths) < self.max_paths
LoopGoesOn(queue, profitable_paths) ==
    queue # << >> /\ Len(profitable_paths) < path_cap

\* A search that puts an item aside only when its depth is used up.
IsPruned_DepthOnly(item, visited) ==
    item.depth >= strategy_params.max_path_length

\* if depth >= max_depth: continue; if state in visited: continue
IsPruned(item, visited) ==
    \/ item.depth >= strategy_params.max_path_length
    \/ <<item.asset, item.depth>> \in visited

\* One iteration of the while loop: the head of the queue is put aside, or
\* marked as visited and expanded over all its neighbours.
SearchStep ==
    /\ search_pc = "loop"
    /\ LoopGoesOn(search_queue, search_found)
    /\ LET item == Head(search_queue)
       IN  IF IsPruned(item, search_visited)
             THEN /\ search_queue' = Tail(search_queue)
                  /\ UNCHANGED <<search_visited, search_found,
                                 search_expanded>>
             ELSE LET out == Expand(path_rates, strategy_params,
                                    start_amount, item,
                                    [n |-> 1, found |-> search_found,
                                     queue |-> Tail(search_queue)])
                  IN  /\ search_queue' = out.queue
                      /\ search_found' = out.found
                      /\ search_visited' =
                            search_visited \cup {<<item.asset, item.depth>>}
                      /\ search_expanded' =
                            Append(search_expanded,
                                   <<item.asset, item.depth>>)
    /\ UNCHANGED <<path_cap, search_pc, search_returned, nonSearchVars>>

\* The loop ends: profitable_paths is sorted and returned.
SearchReturn ==
    /\ search_pc = "loop"
    /\ ~LoopGoesOn(search_queue, search_found)
    /\ search_returned' = SortDescending(search_found, 1, << >>)
    /\ search_pc' = "returned"
    /\ UNCHANGED <<path_cap, search_queue, search_visited, search_found,
                   search_expanded, nonSearchVars>>

SearchNext ==
    \/ \E cap \in PathCaps, rates \in [Hops -> SearchRates],
          params \in [max_path_length : SearchDepths,
                      min_profit_threshold : Thresholds],
          amount \in StartAmounts :
              SearchCall(cap, rates, params, amount)
    \/ SearchStart
    \/ SearchStep
    \/ SearchReturn

(*************************************************************************)
(* Symbol resolution: DataAnalyzer.get_symbol_and_side                    *)
(*************************************************************************)
\* The symbols the assets can make, with and without the underscore.
ResolveSymbols ==
    {x \o y : x, y \in Assets} \cup {x \o "_" \o y : x, y \in Assets}

\* Symbols in one tickers dict.
MaxTickers == 2

ResolveInit ==
    /\ resolve_tickers \in {t \in SUBSET ResolveSymbols :
                               Cardinality(t) <= MaxTickers}
    /\ resolve_pair \in Assets \X Assets
    /\ resolved = << >>

ResolveQuiet ==
    /\ resolve_tickers = {}
    /\ resolve_pair = <<"USDT", "USDT">>
    /\ resolved = << >>

\* get_symbol_and_side(tickers, X, Y)
ResolveForward ==
    /\ resolved = << >>
    /\ resolved' = <<get_symbol_and_side(resolve_tickers, resolve_pair[1],
                                         resolve_pair[2])>>
    /\ UNCHANGED <<resolve_tickers, resolve_pair, nonResolveVars>>

\* get_symbol_and_side(tickers, Y, X)
ResolveBackward ==
    /\ Len(resolved) = 1
    /\ resolved' = Append(resolved,
                          get_symbol_and_side(resolve_tickers,
                                              resolve_pair[2],
                                              resolve_pair[1]))
    /\ UNCHANGED <<resolve_tickers, resolve_pair, nonResolveVars>>

ResolveNext ==
    \/ ResolveForward
    \/ ResolveBackward

(*************************************************************************)
(* Circuit breaker: resilience.py CircuitBreaker, calls one after another *)
(*************************************************************************)
\* Calls of the breaker in one run.
MaxCalls == 9

NoCall == [state |-> "CLOSED", elapsed |-> 0, invoked |-> FALSE,
           outcome |-> "none"]

BreakerInit ==
    /\ cb_streak = 0
    /\ cb_trial = 0
    /\ cb_last = NoCall
    /\ cb_calls = 0

BreakerQuiet == BreakerInit

\* A breaker that tries again at once.
should_attempt_reset_AtOnce(elapsed) == TRUE

\* time.time() - self.last_failure_time >= self.config.recovery_timeout
should_attempt_reset(elapsed) == elapsed >= recovery_timeout

\* The head of CircuitBreaker.call: the state the protected function is
\* called in, "rejected" when the breaker raises instead.
StateOnEntry(state, elapsed) ==
    IF state # "OPEN" THEN state
    ELSE IF should_attempt_reset(elapsed) THEN "HALF_OPEN"
    ELSE "rejected"

\* _on_success: state and success_count afterwards.
on_success(state, success_count) ==
    IF state # "HALF_OPEN" THEN <<state, success_count>>
    ELSE IF success_count + 1 >= 2 THEN <<"CLOSED", 0>>
    ELSE <<state, success_count + 1>>

\* _on_failure: the state afterwards, failure_count being counted already.
on_failure(state, failure_count) ==
    IF state = "HALF_OPEN" THEN "OPEN"
    ELSE IF failure_count >= failure_threshold THEN "OPEN"
    ELSE state

\* CircuitBreaker.call(func): func returns or raises.
BreakerCall(raises) ==
    /\ cb_calls < MaxCalls
    /\ cb_calls' = cb_calls + 1
    /\ LET entered == StateOnEntry(cb_state, cb_elapsed)
           call    == [state |-> cb_state, elapsed |-> cb_elapsed,
                       invoked |-> entered # "rejected",
                       outcome |-> IF entered = "rejected" THEN "rejected"
                                   ELSE IF raises THEN "raised"
                                   ELSE "returned"]
           trial   == IF cb_state = "OPEN" /\ entered = "HALF_OPEN" THEN 0
                      ELSE cb_trial
       IN  /\ cb_last' = call
           /\ IF entered = "rejected"
                THEN UNCHANGED <<cb_state, cb_failure_count,
                                 cb_success_count, cb_elapsed, cb_streak,
                                 cb_trial>>
              ELSE IF raises
                THEN /\ cb_failure_count' = cb_failure_count + 1
                     /\ cb_elapsed' = 0
                     /\ cb_state' = on_failure(entered, cb_failure_count + 1)
                     /\ cb_streak' = cb_streak + 1
                     /\ cb_trial' = trial
                     /\ UNCHANGED cb_success_count
              ELSE /\ cb_failure_count' = 0
                   /\ cb_state' = on_success(entered, cb_success_count)[1]
                   /\ cb_success_count' =
                         on_success(entered, cb_success_count)[2]
                   /\ cb_streak' = 0
                   /\ cb_trial' = IF entered = "HALF_OPEN" THEN trial + 1
                                  ELSE trial
                   /\ UNCHANGED cb_elapsed
    /\ UNCHANGED nonBreakerVars

\* Time passes between two calls of an open breaker.
BreakerWaits ==
    /\ cb_state = "OPEN"
    /\ cb_elapsed < recovery_timeout
    /\ cb_elapsed' = Min2(cb_elapsed + TickSeconds, recovery_timeout)
    /\ UNCHANGED <<cb_state, cb_failure_count, cb_success_count, breakerVars,
                   nonBreakerVars>>

BreakerNext ==
    \/ \E raises \in BOOLEAN : BreakerCall(raises)
    \/ BreakerWaits

(*************************************************************************)
(* Positions: risk_manager.py add_position, close_position                *)
(*************************************************************************)
\* Calls of add_position and close_position in one run.
MaxPositionCalls == 5

\* Profit or loss of a closed position, in 0.01.
PositionPnls == {-1, 1}

PositionInit ==
    /\ position_history = << >>
    /\ position_calls = 0

PositionQuiet == PositionInit

\* add_position(path, position_size, entry_price); opened tells the calls of
\* add_position apart.
AddPosition(path) ==
    /\ position_calls < MaxPositionCalls
    /\ position_calls' = position_calls + 1
    /\ open_positions' =
          Append(open_positions,
                 [id |-> Len(open_positions) + 1, path |-> path,
                  status |-> "open",
                  opened |-> Len(open_positions) + Len(position_history) + 1])
    /\ UNCHANGED <<daily_pnl, position_history, nonPositionVars>>

\* The index of the first open position with that id, 0 when there is none.
FirstWithId(position_id) ==
    IF \E n \in DOMAIN open_positions : open_positions[n].id = position_id
      THEN CHOOSE n \in DOMAIN open_positions :
              /\ open_positions[n].id = position_id
              /\ \A m \in 1..(n - 1) : open_positions[m].id # position_id
      ELSE 0

\* close_position(position_id, exit_price, pnl)
ClosePosition(position_id, pnl) ==
    /\ position_calls < MaxPositionCalls
    /\ position_calls' = position_calls + 1
    /\ LET i == FirstWithId(position_id)
       IN  IF i = 0
             THEN UNCHANGED <<open_positions, position_history, daily_pnl>>
             ELSE /\ position_history' =
                        Append(position_history,
                               [open_positions[i] EXCEPT
                                   !.status = "closed"])
                  /\ open_positions' =
                        SubSeq(open_positions, 1, i - 1)
                            \o SubSeq(open_positions, i + 1,
                                      Len(open_positions))
                  /\ daily_pnl' = daily_pnl + pnl
    /\ UNCHANGED nonPositionVars

PositionNext ==
    \/ \E path \in {<<"USDT", "BTC", "USDT">>} : AddPosition(path)
    \/ \E position_id \in 1..MaxPositionCalls, pnl \in PositionPnls :
          ClosePosition(position_id, pnl)

(*************************************************************************)
(* The weight gate under concurrent callers: api_client.py                *)
(*************************************************************************)
\* Threads that call the client at the same time.
GateCallers == 1..2

\* Calls that enter the wrapper in one run.
MaxGateCalls == 3

\* The counter when the run starts: a fresh window, and a window in which
\* calls of this weight were dispatched and the exchange reported them.
GateStartWeights == {0, 5980}

IdleCaller == [pc |-> "idle", fn |-> "None"]

nonGateVars == <<endpoints, endpoint_cycle, spot_client, time_offset_ms,
                 call_stack, errors_left, api_event, fillVars, execVars,
                 cycleVars, wsVars, graphVars, pathVars, analysisVars,
                 lotVars, allocVars, stampVars, tickerVars, searchVars,
                 resolveVars, breakerVars, positionVars>>

GateInit ==
    /\ gate_threads = [t \in GateCallers |-> IdleCaller]
    /\ window_dispatched = 0
    /\ gate_calls = 0

GateQuiet == GateInit

\* The head of the wrapper, as one step of the caller that holds
\* rate_limit_lock: a window older than 60 s is started anew; a call whose
\* weight does not fit sleeps for the rest of the window (with the lock
\* held) and starts a new one. The weight of the call is not added.
GateEnter(t, fn) ==
    /\ gate_threads[t].pc = "idle"
    /\ gate_calls < MaxGateCalls
    /\ gate_calls' = gate_calls + 1
    /\ gate_threads' = [gate_threads EXCEPT ![t] = [pc |-> "gated", fn |-> fn]]
    /\ IF GateBlocks(fn)
         THEN /\ rate_limit_weight' = 0
              /\ window_age' = 0
              /\ last_sleep' = IF GateWait > 0 THEN GateWait ELSE last_sleep
              /\ window_dispatched' = 0
         ELSE /\ rate_limit_weight' = GateWeight
              /\ window_age' = GateAge
              /\ last_sleep' = last_sleep
              /\ window_dispatched' =
                    IF GateRolled THEN 0 ELSE window_dispatched
    /\ UNCHANGED nonGateVars

\* The caller is past the lock and sends the request: func(self, *args,
\* **kwargs). The counter stays as it is.
GateDispatch(t) ==
    /\ gate_threads[t].pc = "gated"
    /\ gate_threads' = [gate_threads EXCEPT ![t].pc = "call"]
    /\ window_dispatched' = (IF GateRolled THEN 0 ELSE window_dispatched)
                               + DeclaredWeight(gate_threads[t].fn)
    /\ UNCHANGED <<nonGateVars, rate_limit_weight, window_age, last_sleep,
                   gate_calls>>

\* The response of the call: a (data, weight_info) pair replaces the
\* counter by the used weight the exchange reports (0 without the header),
\* any other response leaves it.
GateResponse(t, resp) ==
    /\ gate_threads[t].pc = "call"
    /\ gate_threads' = [gate_threads EXCEPT ![t] = IdleCaller]
    /\ rate_limit_weight' = UsedWeightAfter(resp)
    /\ UNCHANGED <<nonGateVars, window_age, last_sleep, window_dispatched,
                   gate_calls>>

\* Time passes for every caller.
GateTimePasses ==
    /\ window_age <= WindowSeconds
    /\ window_age' = Elapse(window_age, TickSeconds)
    /\ UNCHANGED <<nonGateVars, rate_limit_weight, last_sleep, gateVars>>

GateNext ==
    \/ \E t \in GateCallers, fn \in RestOps : GateEnter(t, fn)
    \/ \E t \in GateCallers : GateDispatch(t)
    \/ \E t \in GateCallers :
          \E resp \in {PlainResponse, NoHeader, window_dispatched} :
              GateResponse(t, resp)
    \/ GateTimePasses

LastQuiet ==
    SearchQuiet /\ ResolveQuiet /\ BreakerQuiet /\ PositionQuiet /\ GateQuiet

(*************************************************************************)
(* Depth subscriptions of the cycles: main.py run_cycle, api_client.py    *)
(*************************************************************************)
RECURSIVE StartDepthStreams(_, _)
\* start_depth_websocket for every symbol of the set: the streams afterwards.
StartDepthStreams(all, symbols) ==
    IF symbols = {} THEN all
    ELSE LET symbol == CHOOSE x \in symbols : TRUE
         IN  StartDepthStreams(
                 Append(all, [key |-> symbol, callback |-> CallbackOf(symbol),
                              state |-> "open"]),
                 symbols \ {symbol})

\* The subscription step of a cycle whose paths require the symbols (a
\* cycle without a profitable path returns before it):
\* start_depth_websocket for each symbol that is not among the active
\* subscriptions, stop_depth_websocket for each active one that is not
\* required; both look at depth_websocket_clients first.
DepthCycle(required) ==
    /\ stop_pc = "idle"
    /\ market_websocket_client # NoClient
    /\ depth_stop_pc = NoSymbol
    /\ cycles < MaxCycles
    /\ cycles' = cycles + 1
    /\ LET new_subscriptions == required \ active_depth_subscriptions
           unused_subscriptions ==
               (active_depth_subscriptions \cup new_subscriptions) \ required
           started == {symbol \in new_subscriptions :
                          ~HasDepthSubscription(symbol)}
           stopped == {symbol \in unused_subscriptions :
                          HasDepthSubscription(symbol)}
           stopped_ids == {depth_websocket_clients[symbol] :
                              symbol \in stopped}
           opened == StartDepthStreams(streams, started)
           id_of(symbol) == CHOOSE id \in DOMAIN opened :
                               /\ id > Len(streams)
                               /\ opened[id].key = symbol
           kept == (DOMAIN depth_websocket_clients \ stopped) \cup started
       IN  /\ Len(streams) + Cardinality(started) <= MaxStreams + MaxCloses
           /\ streams' = [id \in DOMAIN opened |->
                             IF id \in stopped_ids /\ IsOpen(id)
                               THEN [opened[id] EXCEPT !.state = "stopped"]
                               ELSE opened[id]]
           /\ on_close_pending' =
                 on_close_pending \cup {id \in stopped_ids : IsOpen(id)}
           /\ depth_websocket_clients' =
                 [symbol \in kept |->
                     IF symbol \in started THEN id_of(symbol)
                     ELSE depth_websocket_clients[symbol]]
           /\ depth_websocket_running' =
                 [symbol \in (DOMAIN depth_websocket_running \ stopped)
                                 \cup started |->
                     IF symbol \in started THEN TRUE
                     ELSE depth_websocket_running[symbol]]
           /\ active_depth_subscriptions' =
                 SubscriptionsAfter(active_depth_subscriptions, required)
    /\ ws_event' = << >>
    /\ UNCHANGED <<apiVars, fillVars, execVars, cycle_pc, marketVars,
                   all_profitable_paths, trade_instructions, trading_stats,
                   daily_pnl, open_positions, running, stop_pc, stop_event,
                   market_websocket_client, market_websocket_running,
                   market_ws_callback, user_websocket_client,
                   user_websocket_running, user_ws_callback, ws_sleeping,
                   depth_stop_pc, closes_left, graphVars, pathVars,
                   laterVars>>

DepthNext ==
    \/ BotStart
    \/ \E required \in SUBSET DepthSymbols \ {{}} : DepthCycle(required)
    \/ \E id \in StreamIds : DepthOnClose(id)
    \/ \E id \in StreamIds : RemoteClose(id)
    \/ \E id \in StreamIds : HandleMarketWsClose(id)
    \/ MarketWsReconnect

(*************************************************************************)
(* Specifications                                                          *)
(*************************************************************************)
ApiQuiet ==
    /\ endpoints = 1
    /\ endpoint_cycle = 1
    /\ spot_client = 1
    /\ time_offset_ms = 0
    /\ rate_limit_weight = 0
    /\ window_age = 0
    /\ call_stack = <<>>
    /\ errors_left = 0
    /\ api_event = "init"
    /\ last_sleep = 0

LaterQuiet == AnalysisQuiet /\ LotQuiet /\ AllocQuiet /\ StampQuiet
              /\ TickerQuiet /\ LastQuiet

OtherQuiet == WsQuiet /\ GraphQuiet /\ PathQuiet /\ LaterQuiet

InitApi == ApiInit /\ FillQuiet /\ ExecQuiet /\ supplied = {} /\ CycleQuiet /\ OtherQuiet

SpecApi == InitApi /\ [][ApiNext]_vars

InitFill == FillInit /\ ApiQuiet /\ ExecQuiet /\ supplied = {} /\ CycleQuiet /\ OtherQuiet

FillNext == AccountFills

SpecFill == InitFill /\ [][FillNext]_vars

InitExec == ExecInit /\ ApiQuiet /\ FillQuiet /\ CycleQuiet /\ OtherQuiet

SpecExec == InitExec /\ [][ExecNext]_vars

\* The bot as built: nothing executed yet, the optional methods supplied by
\* the collaborators or not.
InitCycle ==
    /\ CycleInit
    /\ ExecQuiet
    /\ supplied \in {{}, OptionalMethods,
                     OptionalMethods \ {"get_current_regime"},
                     OptionalMethods \ {"get_market_quality_metrics"}}
    /\ ApiQuiet
    /\ FillQuiet
    /\ OtherQuiet

SpecCycle == InitCycle /\ [][CycleNext]_vars

InitWs ==
    /\ WsInit
    /\ ApiQuiet
    /\ FillQuiet
    /\ ExecQuiet
    /\ supplied = {}
    /\ CycleQuiet
    /\ GraphQuiet
    /\ PathQuiet
    /\ LaterQuiet

InitGraph ==
    /\ GraphInit
    /\ ApiQuiet
    /\ FillQuiet
    /\ ExecQuiet
    /\ supplied = {}
    /\ CycleQuiet
    /\ WsQuiet
    /\ PathQuiet
    /\ LaterQuiet

SpecGraph == InitGraph /\ [][GraphNext]_vars

InitPath ==
    /\ PathInit
    /\ ApiQuiet
    /\ FillQuiet
    /\ ExecQuiet
    /\ supplied = {}
    /\ CycleQuiet
    /\ WsQuiet
    /\ GraphQuiet
    /\ LaterQuiet

SpecPath == InitPath /\ [][PathNext]_vars

InitAnalysis ==
    /\ AnalysisInit
    /\ ApiQuiet
    /\ FillQuiet
    /\ ExecQuiet
    /\ supplied = {}
    /\ CycleQuiet
    /\ WsQuiet
    /\ GraphQuiet
    /\ PathQuiet
    /\ LotQuiet
    /\ AllocQuiet
    /\ StampQuiet
    /\ TickerQuiet
    /\ LastQuiet

SpecAnalysis == InitAnalysis /\ [][AnalysisNext]_vars

InitLot ==
    /\ LotInit
    /\ ApiQuiet
    /\ FillQuiet
    /\ ExecQuiet
    /\ supplied = {}
    /\ CycleQuiet
    /\ WsQuiet
    /\ GraphQuiet
    /\ PathQuiet
    /\ AnalysisQuiet
    /\ AllocQuiet
    /\ StampQuiet
    /\ TickerQuiet
    /\ LastQuiet

SpecLot == InitLot /\ [][LotNext]_vars

\* get_asset_details, which generate_trade_instructions calls first, is
\* supplied by the exchange client or not.
InitAlloc ==
    /\ AllocInit
    /\ ApiQuiet
    /\ FillQuiet
    /\ ExecQuiet
    /\ supplied \in {{}, OptionalMethods}
    /\ CycleQuiet
    /\ WsQuiet
    /\ GraphQuiet
    /\ PathQuiet
    /\ AnalysisQuiet
    /\ LotQuiet
    /\ StampQuiet
    /\ TickerQuiet
    /\ LastQuiet

SpecAlloc == InitAlloc /\ [][AllocNext]_vars

InitStamp ==
    /\ StampInit
    /\ ApiQuiet
    /\ FillQuiet
    /\ ExecQuiet
    /\ supplied = {}
    /\ CycleQuiet
    /\ WsQuiet
    /\ GraphQuiet
    /\ PathQuiet
    /\ AnalysisQuiet
    /\ LotQuiet
    /\ AllocQuiet
    /\ TickerQuiet
    /\ LastQuiet

SpecStamp == InitStamp /\ [][StampNext]_vars

InitSearch ==
    /\ SearchInit
    /\ PathQuiet
    /\ ApiQuiet
    /\ FillQuiet
    /\ ExecQuiet
    /\ supplied = {}
    /\ CycleQuiet
    /\ WsQuiet
    /\ GraphQuiet
    /\ AnalysisQuiet
    /\ LotQuiet
    /\ AllocQuiet
    /\ StampQuiet
    /\ TickerQuiet
    /\ ResolveQuiet
    /\ BreakerQuiet
    /\ PositionQuiet
    /\ GateQuiet

SpecSearch == InitSearch /\ [][SearchNext]_vars

InitResolve ==
    /\ ResolveInit
    /\ ApiQuiet
    /\ FillQuiet
    /\ ExecQuiet
    /\ supplied = {}
    /\ CycleQuiet
    /\ WsQuiet
    /\ GraphQuiet
    /\ PathQuiet
    /\ AnalysisQuiet
    /\ LotQuiet
    /\ AllocQuiet
    /\ StampQuiet
    /\ TickerQuiet
    /\ SearchQuiet
    /\ BreakerQuiet
    /\ PositionQuiet
    /\ GateQuiet

SpecResolve == InitResolve /\ [][ResolveNext]_vars

InitBreaker ==
    /\ BreakerInit
    /\ ApiQuiet
    /\ FillQuiet
    /\ ExecQuiet
    /\ supplied = {}
    /\ CycleQuiet
    /\ WsQuiet
    /\ GraphQuiet
    /\ PathQuiet
    /\ AnalysisQuiet
    /\ LotQuiet
    /\ AllocQuiet
    /\ StampQuiet
    /\ TickerQuiet
    /\ SearchQuiet
    /\ ResolveQuiet
    /\ PositionQuiet
    /\ GateQuiet

SpecBreaker == InitBreaker /\ [][BreakerNext]_vars

InitPositions ==
    /\ PositionInit
    /\ ApiQuiet
    /\ FillQuiet
    /\ ExecQuiet
    /\ supplied = {}
    /\ CycleQuiet
    /\ WsQuiet
    /\ GraphQuiet
    /\ PathQuiet
    /\ AnalysisQuiet
    /\ LotQuiet
    /\ AllocQuiet
    /\ StampQuiet
    /\ TickerQuiet
    /\ SearchQuiet
    /\ ResolveQuiet
    /\ BreakerQuiet
    /\ GateQuiet

SpecPositions == InitPositions /\ [][PositionNext]_vars

InitGate ==
    /\ endpoints \in 1..NumUrls
    /\ endpoint_cycle = 1
    /\ spot_client = 1
    /\ time_offset_ms = 0
    /\ rate_limit_weight \in GateStartWeights
    /\ window_age = 0
    /\ call_stack = <<>>
    /\ errors_left = MaxErrors
    /\ api_event = "init"
    /\ last_sleep = 0
    /\ gate_threads = [t \in GateCallers |-> IdleCaller]
    /\ window_dispatched = rate_limit_weight
    /\ gate_calls = 0
    /\ FillQuiet
    /\ ExecQuiet
    /\ supplied = {}
    /\ CycleQuiet
    /\ WsQuiet
    /\ GraphQuiet
    /\ PathQuiet
    /\ AnalysisQuiet
    /\ LotQuiet
    /\ AllocQuiet
    /\ StampQuiet
    /\ TickerQuiet
    /\ SearchQuiet
    /\ ResolveQuiet
    /\ BreakerQuiet
    /\ PositionQuiet

SpecGate == InitGate /\ [][GateNext]_vars

SpecDepth == InitWs /\ [][DepthNext]_vars

InitBot ==
    /\ WsInit
    /\ TickerInit
    /\ ApiQuiet
    /\ FillQuiet
    /\ ExecQuiet
    /\ supplied = {}
    /\ CycleQuiet
    /\ GraphQuiet
    /\ PathQuiet
    /\ AnalysisQuiet
    /\ LotQuiet
    /\ AllocQuiet
    /\ StampQuiet
    /\ LastQuiet

SpecBot == InitBot /\ [][BotNext]_vars

\* The close handlers run on the threads of the streams: a handler that is
\* due runs, and one that sleeps wakes up.
SpecWs == InitWs /\ [][WsNext]_vars /\ WF_vars(CloseHandlers)

(*************************************************************************)
(* Claims about the exchange client                                       *)
(*************************************************************************)

\* C9: after a REST error that is not a rate-limit error the active endpoint
\* becomes the cyclic successor, in the latency order fixed at startup, of
\* the endpoint that was active when the error occurred, the first failover
\* after startup included, and the failed call is retried only after the
\* clock has been synchronized again.
C9_FailoverTakesSuccessor ==
    [][/\ (api_event' = "failover" => spot_client' = Succ(spot_client))
       /\ (/\ call_stack # <<>> /\ Top.pc = "await_sync"
           /\ Len(call_stack') = Len(call_stack)
           => api_event' = "synced")]_vars

\* C10: on a 429 or 418 the wrapper goes to sleep for Retry-After seconds,
\* 60 when the header is absent, and then re-enters the same call; neither
\* the error nor the sleep changes the active endpoint, the endpoint cycle
\* or the clock offset.
C10_RateLimitSleepsAndRetries ==
    [][/\ (/\ api_event' = "client_error"
           /\ call_stack'[Len(call_stack')].status \in {429, 418}
           => /\ call_stack'[Len(call_stack')].pc = "rate_limited"
              /\ <<spot_client, endpoint_cycle, time_offset_ms>>' =
                    <<spot_client, endpoint_cycle, time_offset_ms>>)
       /\ (/\ call_stack # <<>>
           /\ Top.pc = "rate_limited"
           => /\ call_stack' = SetTop([Top EXCEPT !.pc = "enter"])
              /\ last_sleep' = (IF Top.retry_hdr = NoHeader THEN 60
                                                            ELSE Top.retry_hdr)
              /\ <<spot_client, endpoint_cycle, time_offset_ms>>' =
                    <<spot_client, endpoint_cycle, time_offset_ms>>)]_vars

\* A 418 without Retry-After has been slept out for 60 s after an earlier
\* failover, and the call stands at the head of the wrapper again.
C10_Witness ==
    /\ api_event = "rate_limit_retry"
    /\ call_stack # <<>>
    /\ Top.pc = "enter"
    /\ Top.status = 418
    /\ Top.retry_hdr = NoHeader
    /\ last_sleep = 60
    /\ endpoint_cycle # 1

\* C11: a REST call that failed with a client error other than 429/418 and
\* was retried after the failover is not retried a second time: when the
\* retry fails with such an error again, the error goes to the caller and
\* the wrapper does not fail over and call again.
C11_ClientErrorRetriedAtMostOnce ==
    [][(/\ call_stack # <<>>
        /\ Top.pc = "call"
        /\ Top.status # 0
        /\ ~IsRateLimitStatus(Top.status)
        /\ Len(call_stack') = Len(call_stack))
       => ~(/\ Last(call_stack').pc = "failover"
            /\ Last(call_stack').status # 0
            /\ ~IsRateLimitStatus(Last(call_stack').status))]_vars

\* C12: a call is dispatched only with used weight + declared weight <= 6000
\* in the current window; a call that would exceed the budget is held for
\* the rest of the 60 s of the window, the counter is reset to 0 with a new
\* window start, and then the call is dispatched.
C12_DispatchedWithinTheWeightBudget ==
    [][(/\ call_stack # <<>>
        /\ Top.pc = "enter"
        /\ Len(call_stack') = Len(call_stack)
        /\ Last(call_stack').pc = "call")
       => LET weight == DeclaredWeight(Top.fn)
              held   == /\ window_age <= 60
                        /\ rate_limit_weight + weight > 6000
          IN  /\ rate_limit_weight' + weight <= 6000
              /\ held => /\ rate_limit_weight' = 0
                         /\ window_age' = 0
                         /\ window_age < 60 => last_sleep' = 60 - window_age
              /\ ~held => last_sleep' = last_sleep]_vars

\* A call of weight 20 met a counter of 5990 in a window that had begun
\* TickSeconds before, was held for the rest of the window and stands
\* dispatched with a counter of 0 in a new window.
C12_Witness ==
    /\ api_event = "gate_wait"
    /\ call_stack # <<>>
    /\ Top.pc = "call"
    /\ Top.fn = "get_exchange_info"
    /\ last_sleep = 60 - TickSeconds
    /\ rate_limit_weight = 0
    /\ window_age = 0

\* C13: within one 60-second window the used-weight counter never
\* decreases, whatever calls and responses occur, and it is 0 right after
\* each window roll-over.
C13_UsedWeightMonotonicWithinAWindow ==
    [][LET rolled == window_age' < window_age \/ api_event' = "gate_wait"
       IN  /\ rolled => rate_limit_weight' = 0
           /\ ~rolled => rate_limit_weight' >= rate_limit_weight]_vars


(*************************************************************************)
(* Claims about the fill accounting                                       *)
(*************************************************************************)
RECURSIVE CommissionChargedIn(_, _)
CommissionChargedIn(asset, fills) ==
    IF fills = <<>> THEN 0
    ELSE (IF fills[1].commissionAsset = asset THEN fills[1].commission ELSE 0)
         + CommissionChargedIn(asset, Tail(fills))

\* C1: the amount carried into the next hop is the sum of the received
\* quantities of all fills (qty on a BUY, quoteQty on a SELL) minus the
\* commissions of exactly the fills charged in the asset being received,
\* for any number of fills and any mix of commission assets.
C1_NextHopAmountIsNetOfOwnAssetCommission ==
    fill_amount # -1 =>
        fill_amount = TotalQtyReceived(fill_side, fill_list)
                      - CommissionChargedIn(fill_asset_to, fill_list)

(*************************************************************************)
(* Claims about the order executor                                        *)
(*************************************************************************)
\* C2: place_order is called for a hop only after test_place_order has
\* returned for the same symbol, side and quantity of that hop; when the
\* test order fails no real order is placed for the hop.
C2_TestOrderBeforeRealOrder ==
    [][\A o \in placed' \ placed : o.order \in tested]_vars

C2_Witness ==
    /\ \E o \in placed : o.order_id # NoOrderId /\ o.order \in tested
    /\ \E k \in DOMAIN futures :
          /\ futures[k].pc = "finished"
          /\ futures[k].order_quantity > 0
          /\ \A o \in placed : o.order.future # k

\* C3: when the symbol is TRADING, its metadata is found, the adjusted
\* quantity is positive and the test order, the real order and the order
\* lookup succeed, execute_trade returns success = true with the order id
\* the exchange gave; a placed and filled order is never reported as failed.
C3_PlacedOrderReportedAsSuccess ==
    \A k \in DOMAIN futures :
        (/\ futures[k].pc = "after"
         /\ futures[k].response_id # NoOrderId
         /\ futures[k].order_details)
        => /\ Last(futures[k].execution_results).success
           /\ Last(futures[k].execution_results).order_id
                  = futures[k].response_id

\* C4: once a hop of a path aborts, no order is submitted for a later hop of
\* that path and the path's result has success = false.
C4_AbortStopsThePath ==
    \A k \in DOMAIN futures :
        LET f == futures[k]
        IN  /\ \A n \in DOMAIN f.execution_results :
                  ~f.execution_results[n].success =>
                      \A o \in placed :
                          o.order.future = k => o.order.hop <= n - 1
            /\ (/\ f.pc \in {"finished", "collected"}
                /\ ~HasRaised(f.outcome)
                /\ f.i < Len(f.path) - 1)
               => /\ ~f.outcome.success
                  /\ \A o \in placed :
                         o.order.future = k => o.order.hop <= f.i

C4_Witness ==
    \E k \in DOMAIN futures :
        /\ futures[k].pc = "collected"
        /\ Len(futures[k].path) = 3
        /\ Len(futures[k].execution_results) = 1
        /\ ~futures[k].outcome.success
        /\ \E o \in placed : o.order.future = k /\ o.order_id # NoOrderId

\* C5: every instruction generate_trade_instructions produces is executed on
\* its own path with its own amount: its result carries the instruction's
\* path and investment amount, and the first hop of the path was attempted.
C5_InstructionRunsOnItsPathAndAmount ==
    [][\A k \in DOMAIN futures :
          (/\ futures[k].pc = "finished"
           /\ futures'[k].pc = "collected"
           /\ instructions[k] \in HydraInstructions)
          => /\ Last(results').path = instructions[k].path
             /\ Last(results').initial_amount
                    = instructions[k].investment_amount
             /\ futures[k].path = instructions[k].path]_vars

\* C8: execute_instructions_parallel returns one result per instruction
\* whatever the interleaving: a worker that raises yields success = false,
\* every other worker's result is appended as that worker returned it, no
\* future is dropped, and at most 5 instructions run at a time.
C8_OneResultPerInstruction ==
    [][/\ Cardinality(Running') <= 5
       /\ Len(results') =
              Cardinality({k \in DOMAIN futures' :
                              futures'[k].pc = "collected"})
       /\ (exec_pc' \in {"persist", "returned"}
              => Len(results') = Len(instructions))
       /\ \A k \in DOMAIN futures :
              (futures[k].pc = "finished" /\ futures'[k].pc = "collected")
              => /\ SubSeq(results', 1, Len(results)) = results
                 /\ Len(results') = Len(results) + 1
                 /\ IF HasRaised(futures[k].outcome)
                      THEN ~Last(results').success
                      ELSE Last(results') = futures[k].outcome
                 /\ \A j \in DOMAIN futures \ {k} :
                        futures'[j] = futures[j]]_vars

C8_Witness ==
    /\ exec_pc = "persist"
    /\ Len(results) = MaxWorkers + 1
    /\ \E n \in DOMAIN results : results[n].path = <<>>
    /\ \E n \in DOMAIN results : results[n].execution_results # <<>>

(*************************************************************************)
(* Claims about the analysis cycle and the risk layer                     *)
(*************************************************************************)
\* The cycle's account and market meet the conditions of C6.
CycleIsViable ==
    /\ system_status = 0
    /\ free_balance > 0
    /\ start_in_graph
    /\ engine_paths # <<>>
    /\ TotalCapital > 0

\* C6: a cycle with system status 0, a start asset with a free balance that
\* is in the graph, at least one profitable path and a positive allocation
\* runs to its last step: it ends only after the instructions were handed to
\* the executor, with total_trades grown by the number of instructions.
C6_ViableCycleReachesTheExecutor ==
    [][(/\ cycle_pc \notin CycleEnded
        /\ cycle_pc' \in CycleEnded
        /\ CycleIsViable)
       => /\ cycle_pc' = "done"
          /\ trade_instructions # <<>>
          /\ instructions = trade_instructions
          /\ trading_stats'.total_trades =
                 trading_stats.total_trades + Len(trade_instructions)]_vars

\* C7: no instruction reaches the executor while a risk gate fails: every
\* instruction handed over passes check_risk_limits in the state the risk
\* manager is in (daily loss, open positions, minimum size, position risk).
C7_HandedInstructionsPassTheRiskGates ==
    cycle_pc = "executing" =>
        \A n \in DOMAIN trade_instructions :
            check_risk_limits(daily_pnl, open_positions,
                trade_instructions[n].investment_amount,
                estimate_max_drawdown(trade_instructions[n].path))

(*************************************************************************)
(* Claims about the streams                                               *)
(*************************************************************************)
WsKeys == {"market", "user"} \cup DepthSymbols

\* The subscription of key is on the wire with the callback of its caller.
Subscribed(key) ==
    \E id \in DOMAIN streams :
        /\ streams[id].key = key
        /\ streams[id].state = "open"
        /\ streams[id].callback = CallbackOf(key)

\* The remote side has closed the subscription of key, which is off since.
ClosedByRemote(key) ==
    /\ \E id \in DOMAIN streams :
          streams[id].key = key /\ streams[id].state = "remote_closed"
    /\ ~Subscribed(key)

\* C14: once TradingBot.stop has set the shutdown event no stream is
\* established again: neither the close of the ticker stream nor that of
\* the user-data stream brings a new stream about.
C14_NoStreamAfterShutdown ==
    [][stop_event => Len(streams') = Len(streams)]_vars

\* C15: a subscription (ticker, user data, depth of a symbol) that the
\* remote side closes while no shutdown is requested is established again
\* with the same callback, unless a shutdown is requested meanwhile.
C15_RemoteCloseIsFollowedByResubscription ==
    \A key \in WsKeys :
        (ClosedByRemote(key) /\ ~ShutdownRequested)
            ~> (Subscribed(key) \/ ShutdownRequested)

\* C16: start_depth_websocket for a symbol that has an entry in
\* depth_websocket_clients opens no stream and leaves both dictionaries as
\* they are; when stop_depth_websocket is over the symbol has no entry; and
\* a start for a symbol without entry opens a new stream and enters it.
C16_DepthStartIdempotentStopReleases ==
    [][\A symbol \in DepthSymbols :
          /\ (/\ ws_event' = <<"start_depth", symbol, "exists">>
                 \/ ws_event' = <<"start_depth", symbol, "created">>
              /\ symbol \in DOMAIN depth_websocket_clients)
             => UNCHANGED <<streams, depth_websocket_clients,
                            depth_websocket_running>>
          /\ (/\ ws_event' = <<"start_depth", symbol, "exists">>
                 \/ ws_event' = <<"start_depth", symbol, "created">>
              /\ symbol \notin DOMAIN depth_websocket_clients)
             => /\ Len(streams') = Len(streams) + 1
                /\ streams'[Len(streams')] =
                      [key |-> symbol, callback |-> CallbackOf(symbol),
                       state |-> "open"]
                /\ symbol \in DOMAIN depth_websocket_clients'
                /\ depth_websocket_clients'[symbol] = Len(streams')
          /\ (\/ ws_event' = <<"stop_depth", symbol, "returned">>
              \/ ws_event' = <<"stop_depth", symbol, "KeyError">>
              \/ ws_event' = <<"stop_depth", symbol, "absent">>)
             => symbol \notin DOMAIN depth_websocket_clients']_vars

\* A symbol's stream was stopped and its entry removed, a later start has
\* opened a new stream for it, and one more start has found the entry.
C16_Witness ==
    \E symbol \in DepthSymbols :
        /\ ws_event = <<"start_depth", symbol, "exists">>
        /\ symbol \in DOMAIN depth_websocket_clients
        /\ IsOpen(depth_websocket_clients[symbol])
        /\ \E id \in DOMAIN streams :
              /\ streams[id].key = symbol
              /\ streams[id].state = "stopped"
              /\ id < depth_websocket_clients[symbol]

(*************************************************************************)
(* Claims about the trading graph                                         *)
(*************************************************************************)
\* The assets the adjacency lists for asset u.
Neighbours(graph, u) ==
    IF u \in DOMAIN graph THEN {graph[u][n] : n \in DOMAIN graph[u]} ELSE {}

\* Some symbol of the snapshot with status TRADING has base and quote {u, v}.
TradesPair(symbols, u, v) ==
    \E n \in DOMAIN symbols :
        /\ symbols[n].status = "TRADING"
        /\ HasKey(symbols[n], "baseAsset")
        /\ HasKey(symbols[n], "quoteAsset")
        /\ {symbols[n].baseAsset, symbols[n].quoteAsset} = {u, v}

C18_ReadersSeeACompleteGraph ==
    [][observed' # observed
       => \/ observed' = complete_graph
          \/ /\ HasKey(exchange_info, "symbols")
             /\ observed' = GraphOf(exchange_info.symbols)]_vars

\* C19: build_trading_graph fetches the metadata at most three times; after
\* three malformed responses it returns without raising, the graph is as it
\* was (empty on the first build) and TradingBot.start goes on into its loop.
C19_BuildGivesUpAfterThreeFetches ==
    /\ build_attempt <= 3
    /\ (build_pc = "idle" /\ last_build = "failed")
       => /\ build_attempt = 3
          /\ GraphState = complete_graph
          /\ builds = 1 => trading_graph = << >> /\ all_assets = {}
          /\ start_pc = "loop"

\* The first build got three malformed responses and gave up, the graph is
\* empty, and the bot runs: a path search has read the empty graph.
C19_Witness ==
    /\ build_pc = "idle"
    /\ last_build = "failed"
    /\ builds = 1
    /\ build_attempt = 3
    /\ exchange_info = Malformed
    /\ start_pc = "loop"
    /\ trading_graph = << >>
    /\ observed = <<<< >>, {}, << >>>>

(*************************************************************************)
(* Claims about the path search                                           *)
(*************************************************************************)
\* Where in profitable_paths, before the sort, the search put the path.
DiscoveryIndex(path) ==
    CHOOSE n \in DOMAIN discovered : discovered[n].path = path

\* C20: every path find_profitable_paths returns has a profit_percent
\* strictly above min_profit_threshold of the strategy parameters; the
\* list is in non-increasing order of profit_percent, paths of equal
\* profit_percent in the order of their discovery; and it holds every path
\* the search found.
C20_ReturnedPathsAboveThresholdAndSorted ==
    path_pc = "returned" =>
        /\ \A n \in DOMAIN returned_paths :
              /\ returned_paths[n].profit_percent
                    > strategy_params.min_profit_threshold
              /\ \E k \in DOMAIN discovered :
                    discovered[k] = returned_paths[n]
        /\ Len(returned_paths) = Len(discovered)
        /\ \A m, n \in DOMAIN returned_paths :
              m < n =>
                /\ returned_paths[m].profit_percent
                      >= returned_paths[n].profit_percent
                /\ returned_paths[m].profit_percent
                      = returned_paths[n].profit_percent
                   => DiscoveryIndex(returned_paths[m].path)
                         < DiscoveryIndex(returned_paths[n].path)

\* A search returned three paths or more: the first two tie and the sort
\* has moved a path found later in front of one found earlier, while a
\* path that just reaches the threshold was left out.
C20_Witness ==
    /\ path_pc = "returned"
    /\ Len(returned_paths) >= 3
    /\ returned_paths[1].profit_percent = returned_paths[2].profit_percent
    /\ returned_paths[2].profit_percent > returned_paths[3].profit_percent
    /\ returned_paths # discovered
    /\ strategy_params.min_profit_threshold = 10
    /\ \E h \in Hops : h[1] = StartAsset /\ path_rates[h] = 110


(*************************************************************************)
(* Claims about the path analysis                                         *)
(*************************************************************************)
\* C21: for every path and every ticker map, missing symbols and crossed or
\* zero quotes included, the PathAnalysis of _analyze_path_risk has
\* max_drawdown <= 0.1, 0.5 <= execution_probability <= 1.0 and
\* 0 <= risk_score <= 1.
C21_PathAnalysisWithinItsRanges ==
    analysis_pc = "returned" =>
        /\ path_analysis.max_drawdown <= 100
        /\ path_analysis.execution_probability >= 500
        /\ path_analysis.execution_probability <= 1000
        /\ path_analysis.risk_score >= 0
        /\ path_analysis.risk_score <= 1000


(*************************************************************************)
(* Claims about the LOT_SIZE adjustment                                   *)
(*************************************************************************)
\* C22: for every LOT_SIZE filter and every quantity q, adjusting twice gives
\* what adjusting once gives, and the adjusted quantity is at most q; with
\* minQty 0.001 and stepSize 0.0001 the quantity 0.00123456 is adjusted to
\* exactly 0.0012.
C22_LotSizeAdjustmentIdempotentAndBelow ==
    /\ Len(lot_adjusted) >= 1 =>
          /\ lot_adjusted[1] <= lot_quantity
          /\ (lot_filter = WorkedFilter /\ lot_quantity \in WorkedQuantities)
                => lot_adjusted[1] = 120000
    /\ Len(lot_adjusted) = 2 => lot_adjusted[2] = lot_adjusted[1]

\* A quantity that is cut down to a step, adjusted twice.
C22_Witness ==
    /\ Len(lot_adjusted) = 2
    /\ lot_filter.filterType = "LOT_SIZE"
    /\ lot_adjusted[1] > 0
    /\ lot_adjusted[1] < lot_quantity
    /\ lot_adjusted[1] < lot_filter.maxQty


(*************************************************************************)
(* Claims about the allocation                                            *)
(*************************************************************************)
\* The analysis of the path an allocation is for.
AnalysisOfAllocation(allocation) ==
    CHOOSE a \in {path_analyses[n] : n \in DOMAIN path_analyses} :
        a.path_info.path = allocation.path

\* C23: every allocation emitted by generate_trade_instructions through
\* _optimize_portfolio_allocation_hydra is for a path whose analysis has
\* sharpe_ratio >= 0.5 and execution_probability >= 0.7; a path failing
\* either bound never receives capital.
C23_AllocationsOnlyForViablePaths ==
    \A n \in DOMAIN path_allocations :
        LET a == AnalysisOfAllocation(path_allocations[n])
        IN  /\ a.sharpe_ratio >= min_sharpe_ratio
            /\ a.execution_probability >= 700

RECURSIVE SumOfAmounts(_)
SumOfAmounts(allocations) ==
    IF allocations = << >> THEN 0
    ELSE Head(allocations).investment_amount
            + SumOfAmounts(Tail(allocations))

\* C24: for every starting asset the investment amounts of the allocations
\* emitted for it in one cycle sum to at most the free balance of the asset,
\* although the allocation fractions are not normalized and may sum to more
\* than 1.
C24_AllocationsWithinTheFreeBalance ==
    SumOfAmounts(path_allocations) <= alloc_balance

\* Three allocations whose fractions sum to more than 1: the amounts exceed
\* the capital and stay within the balance.
C24_Witness ==
    /\ alloc_pc = "returned"
    /\ Len(path_allocations) = 3
    /\ SumOfAmounts(path_allocations) > AllocCapital


(*************************************************************************)
(* Claims about the order timestamps                                      *)
(*************************************************************************)
\* C25: every order request sent to a private endpoint, the test order and
\* the real order of the executor, carries timestamp = local time in ms +
\* the clock offset of the last clock synchronization.
C25_OrderTimestampIsLocalTimePlusOffset ==
    \A n \in DOMAIN requests :
        requests[n].timestamp =
            requests[n].local_ms + requests[n].time_offset_ms


(*************************************************************************)
(* Claims about the start of a cycle                                      *)
(*************************************************************************)
\* C26: a cycle that finds the system status other than 0 ends at once: its
\* first step ends it without a path search, without starting or stopping a
\* depth subscription, without an instruction and without an order, and
\* nothing more of it runs; the next step is the start of another cycle.
C26_PausedCycleDoesNothing ==
    [][/\ (cycles' = cycles + 1 /\ system_status' # 0)
          => /\ cycle_pc' = "paused"
             /\ all_profitable_paths' = << >>
             /\ trade_instructions' = << >>
             /\ UNCHANGED <<active_depth_subscriptions, instructions,
                            futures, tested, placed, trading_stats>>
       /\ cycle_pc = "paused" => cycles' = cycles + 1]_vars

\* A cycle paused after a cycle that subscribed to depth streams.
C26_Witness ==
    /\ cycle_pc = "paused"
    /\ system_status # 0
    /\ cycles = 2
    /\ active_depth_subscriptions # {}


(*************************************************************************)
(* Claims about the ticker handler                                        *)
(*************************************************************************)
\* C27: after the shutdown signal no new analysis cycle is started: a
\* ticker message that arrives after TradingBot.stop has returned never
\* triggers run_cycle.
C27_NoCycleForAMessageAfterStop ==
    \A id \in StreamIds :
        ticker_threads[id].pc = "cycle" => ~ticker_threads[id].after_stop

\* C29: an error raised inside an analysis cycle does not stop the
\* orchestrator: the thread of the stream comes back from every cycle, and
\* ticker messages are counted after an error as before it.
C29_CycleErrorDoesNotStopTheHandler ==
    /\ \A id \in StreamIds : ticker_threads[id].pc # "crashed"
    /\ (\A id \in StreamIds : ticker_threads[id].pc = "idle")
          => analysis_counter \in {NoCounter, recognized}

\* A second cycle is started after the first one raised.
C29_Witness ==
    /\ cycle_errors = 1
    /\ cycles_started = 2
    /\ \E id \in StreamIds : ticker_threads[id].pc = "cycle"

FirstHopDone(k) ==
    /\ futures[k].pc \notin {"queued", "finished", "collected"}
    /\ \E o \in placed :
          /\ o.order.future = k
          /\ o.order.hop = 0
          /\ o.order_id # NoOrderId

\* C28: a position is open for a path exactly from the success of its first
\* hop until execute_single_path returns, so that the open positions the
\* risk gates count are the paths in flight.
C28_PositionOpenWhileThePathIsInFlight ==
    \A k \in DOMAIN futures :
        FirstHopDone(k) <=>
            \E n \in DOMAIN open_positions :
                /\ HasKey(open_positions[n], "path")
                /\ open_positions[n].path = futures[k].path


(*************************************************************************)
(* Claims about the depth subscriptions, the path search, the breaker,    *)
(* the request gate and the positions                                     *)
(*************************************************************************)
\* C31: after the depth-subscription step of a cycle the active depth
\* subscriptions are the symbols the cycle's surviving paths require: every
\* required symbol is subscribed, every other one has been unsubscribed.
C31_SubscriptionsAreTheRequiredSymbols ==
    cycle_pc = "instructions"
        => active_depth_subscriptions = RequiredSymbols(all_profitable_paths)

\* A later cycle has left the step with symbols subscribed.
C31_Witness ==
    /\ cycle_pc = "instructions"
    /\ cycles >= 2
    /\ active_depth_subscriptions = {"ETHUSDT"}


\* No asset occurs twice in the path, except that the last asset may be the
\* first one.
IsSimplePath(path) ==
    \A m, n \in DOMAIN path :
        (m < n /\ path[m] = path[n]) => (m = 1 /\ n = Len(path))

\* C32: every path find_profitable_paths returns is simple: no asset occurs
\* twice in it, except that the last asset may equal the start asset.
C32_ReturnedPathsAreSimple ==
    search_pc = "returned"
        => \A n \in DOMAIN search_returned :
              IsSimplePath(search_returned[n].path)

\* C33: the candidates one call records never exceed the cap max_paths,
\* also when the cap is reached in the middle of one asset's neighbours.
C33_CandidatesWithinTheCap ==
    Len(search_found) <= path_cap

\* No (asset, depth) state is expanded twice.
ExpandedOnce ==
    \A m, n \in DOMAIN search_expanded :
        search_expanded[m] = search_expanded[n] => m = n

\* What is left of the loop: the (asset, depth) states below max_depth not
\* expanded so far, each of which can put one item per asset on the queue,
\* and the items on the queue.
SearchMeasure ==
    LET depth == IF strategy_params.max_path_length > 0
                   THEN strategy_params.max_path_length ELSE 0
        unexpanded == Cardinality(Assets) * depth
                          - Cardinality(search_visited)
    IN  unexpanded * Cardinality(Assets) + Len(search_queue)

\* C34: find_profitable_paths terminates on every graph, cycles included,
\* and for every max_depth, and expands each (asset, depth) pair at most
\* once: every iteration of its loop makes a natural number smaller, and no
\* state is expanded twice.
C34_SearchTerminatesAndExpandsOnce ==
    [][(search_pc = "loop" /\ search_pc' = "loop")
          => /\ SearchMeasure' < SearchMeasure
             /\ SearchMeasure' >= 0
             /\ ExpandedOnce']_vars

\* A search of depth 3 over the whole triangle has returned: the start asset
\* was reached again at depth 2 and expanded there.
C34_Witness ==
    /\ search_pc = "returned"
    /\ strategy_params.max_path_length = 3
    /\ Len(search_expanded) >= 5
    /\ \E n \in DOMAIN search_expanded :
          search_expanded[n] = <<StartAsset, 2>>


\* The tickers hold a symbol of the pair (a, b), in one spelling or the
\* other.
HasPairSymbol(a, b) ==
    a \o b \in resolve_tickers \/ a \o "_" \o b \in resolve_tickers

\* The symbol of the pair (a, b) the tickers hold, the plain one first.
PairSymbol(a, b) ==
    IF a \o b \in resolve_tickers THEN a \o b ELSE a \o "_" \o b

\* C35 as stated: when the tickers contain XY and not YX, resolve(X, Y) is
\* (XY, SELL) and resolve(Y, X) is (XY, BUY); when neither XY nor YX
\* exists the result is (None, None).
C35_Original ==
    Len(resolved) = 2 =>
        LET X == resolve_pair[1]
            Y == resolve_pair[2]
        IN  /\ (X \o Y \in resolve_tickers /\ Y \o X \notin resolve_tickers)
                  => /\ resolved[1] = <<X \o Y, "SELL">>
                     /\ resolved[2] = <<X \o Y, "BUY">>
            /\ (X \o Y \notin resolve_tickers
                   /\ Y \o X \notin resolve_tickers)
                  => /\ resolved[1] = <<NoSymbol, NoSymbol>>
                     /\ resolved[2] = <<NoSymbol, NoSymbol>>

\* C35: when the tickers hold a symbol of the pair (X, Y), spelled XY or
\* X_Y, and none of the pair (Y, X), resolve(X, Y) is that symbol with SELL
\* and resolve(Y, X) is the same symbol with BUY; when the tickers hold no
\* symbol of either pair in either spelling, both results are (None, None).
C35_ResolutionIsSymmetric ==
    Len(resolved) = 2 =>
        LET X == resolve_pair[1]
            Y == resolve_pair[2]
        IN  /\ (HasPairSymbol(X, Y) /\ ~HasPairSymbol(Y, X))
                  => /\ resolved[1] = <<PairSymbol(X, Y), "SELL">>
                     /\ resolved[2] = <<PairSymbol(X, Y), "BUY">>
            /\ (~HasPairSymbol(X, Y) /\ ~HasPairSymbol(Y, X))
                  => /\ resolved[1] = <<NoSymbol, NoSymbol>>
                     /\ resolved[2] = <<NoSymbol, NoSymbol>>

\* Only XY is quoted and both directions were resolved.
C35_Witness ==
    /\ Len(resolved) = 2
    /\ resolve_pair = <<"BTC", "USDT">>
    /\ resolve_tickers = {"BTCUSDT", "ETHBTC"}
    /\ resolved = <<<<"BTCUSDT", "SELL">>, <<"BTCUSDT", "BUY">>>>


\* C36: a CLOSED breaker switches to OPEN when failure_threshold calls in a
\* row have failed, a success in between starting the count again, and a
\* call of an OPEN breaker made before recovery_timeout seconds have passed
\* since the last failure is rejected without the protected function being
\* called.
C36_OpensAtTheThresholdAndRejectsWhileOpen ==
    /\ cb_state = "CLOSED" => cb_streak < failure_threshold
    /\ (cb_last.state = "CLOSED" /\ cb_last.outcome # "none")
          => (cb_state = "OPEN" <=> cb_streak >= failure_threshold)
    /\ (cb_last.state = "OPEN" /\ cb_last.elapsed < recovery_timeout)
          => /\ cb_last.outcome = "rejected"
             /\ ~cb_last.invoked
             /\ cb_state = "OPEN"

\* The breaker opened on the fifth failure in a row and has rejected calls
\* since.
C36_Witness ==
    /\ cb_state = "OPEN"
    /\ cb_streak = failure_threshold
    /\ cb_calls > failure_threshold + 1
    /\ cb_last.outcome = "rejected"

\* The last call found the breaker HALF_OPEN, or switched it to HALF_OPEN,
\* and called the protected function.
CalledHalfOpen ==
    /\ cb_last.invoked
    /\ \/ cb_last.state = "HALF_OPEN"
       \/ cb_last.state = "OPEN"

\* C37: a breaker leaves HALF_OPEN for CLOSED only after 2 successful calls
\* made since it last entered HALF_OPEN, and a failed call while HALF_OPEN
\* returns it to OPEN.
C37_TwoSuccessesCloseAHalfOpenBreaker ==
    CalledHalfOpen =>
        /\ cb_state = "CLOSED" => cb_trial >= 2
        /\ cb_last.outcome = "raised" => cb_state = "OPEN"

\* C40: after any sequence of add_position and close_position calls the
\* open positions have pairwise distinct ids, so that close_position(id)
\* closes the position that was given that id when it was opened.
C40_OpenPositionsHaveDistinctIds ==
    \A m, n \in DOMAIN open_positions :
        open_positions[m].id = open_positions[n].id => m = n


\* C39: whatever cycles and remote closes of depth streams came before,
\* when a cycle has done its subscription step and no close is left to be
\* handled, every symbol among the active depth subscriptions has a live
\* depth stream: a symbol whose stream the remote side closed is subscribed
\* again by the next cycle that requires it.
C39_ActiveSubscriptionsAreLive ==
    [][(cycles' = cycles + 1 /\ on_close_pending' = {})
          => \A symbol \in active_depth_subscriptions' :
                \E id \in DOMAIN streams' :
                    /\ streams'[id].key = symbol
                    /\ streams'[id].state = "open"]_vars


\* C38: under any interleaving of concurrent callers, the declared weights
\* of the calls dispatched within one window of the wrapper sum to no more
\* than REQUEST_WEIGHT_LIMIT_PER_MINUTE.
C38_DispatchedWeightWithinTheLimit ==
    window_dispatched <= REQUEST_WEIGHT_LIMIT_PER_MINUTE

====
